---- MODULE Spec2Model ----
(***************************************************************************)
(* A model of the projects of the repository. social_media_api: accounts  *)
(* (registration, tokens, the follow graph), posts / comments / likes and  *)
(* the notification store, with one action per HTTP handler.               *)
(* advanced-api-project: the book API. LibraryProject: users and the       *)
(* profiles their post_save receivers create.                              *)
(***************************************************************************)
EXTENDS Integers, Sequences, FiniteSets

(* ---- bounds ---- *)
NumUsers == 3
MaxPosts == 2
MaxComments == 2
MaxNotifications == 2
MaxRequests == 2
MaxBooks == 2
MaxTokens == 3

(* ---- identities ---- *)
\* Registered users (primary keys); the anonymous caller is 0.
Users == 1..NumUsers
Anonymous == 0
Callers == {Anonymous} \cup Users
\* Primary keys a URL can name: every user, and one key with no row behind it.
UserIds == 1..(NumUsers + 1)
PostIds == 1..(MaxPosts + 1)
CommentIds == 1..(MaxComments + 1)
NotificationIds == 1..(MaxNotifications + 1)

\* Request texts as character sequences.
Whitespace == {" ", "\t", "\n"}
Texts == { <<>>, <<" ", "\t">>, <<"H", "i">> }

\* The password of the users that exist from the start.
FixturePassword ==
    <<"S", "t", "r", "o", "n", "g", "P", "a", "s", "s", "1", "2", "3", "!">>

\* date.today().year when the run starts, on a scale where it is 2.
ThisYear == 2

VARIABLES
    following,      \* [Users \X Users -> Nat]: rows of the following through-table per (from, to)
    posts,          \* set of Post rows [id, author, title, content]
    nextPostId,     \* next Post primary key
    comments,       \* set of Comment rows [id, post, author, content]
    nextCommentId,  \* next Comment primary key
    likes,          \* [PostIds \X Users -> Nat]: number of Like rows per (post, user)
    notifications,  \* sequence of Notification rows, in creation (timestamp / pk) order
    resp,           \* the last HTTP response, with the request it answers
    requests,       \* like requests handled step by step: [user, post, pc, created, caught, status]
    users,          \* set of CustomUser rows [id, email, password] (the username is the id)
    tokens,         \* set of authtoken Token rows [user, key]
    nextTokenKey,   \* the key the next Token gets
    books,          \* advanced-api-project: set of Book rows [id, title, author, publication_year]
    nextBookId,     \* next Book primary key
    current_year,   \* date.today().year
    libraryUsers,   \* LibraryProject: set of user primary keys
    profiles        \* LibraryProject: sequence of UserProfile rows [user, role]

vars == <<following, posts, nextPostId, comments, nextCommentId, likes, notifications, resp,
          requests, users, tokens, nextTokenKey, books, nextBookId, current_year,
          libraryUsers, profiles>>

followVars == <<following>>
contentVars == <<posts, nextPostId, comments, nextCommentId, likes>>
accountVars == <<users, tokens, nextTokenKey>>
bookVars == <<books, nextBookId, current_year>>
profileVars == <<libraryUsers, profiles>>
\* what the posts, follow and notification views never touch
otherVars == <<accountVars, bookVars, profileVars>>

(* ---- helpers ---- *)
\* Primary keys of the users that exist, and who can send a request: a user
\* without a row cannot authenticate.
UserPks == {r.id : r \in users}
UserExists(t) == t \in UserPks
LiveCallers == {Anonymous} \cup UserPks

RECURSIVE lstrip(_)
lstrip(s) == IF s = <<>> THEN <<>>
             ELSE IF Head(s) \in Whitespace THEN lstrip(Tail(s)) ELSE s

RECURSIVE rstrip(_)
rstrip(s) == IF s = <<>> THEN <<>>
             ELSE IF s[Len(s)] \in Whitespace THEN rstrip(SubSeq(s, 1, Len(s) - 1)) ELSE s

\* str.strip()
strip(s) == rstrip(lstrip(s))

\* mutant: the membership test always answers "not following"
is_following_never(f, a, b) == FALSE

\* CustomUser.is_following: self.following.filter(pk=user.pk).exists()
is_following(f, a, b) == f[<<a, b>>] > 0

\* mutant: the relation behaves as a symmetrical one, adding the reverse row too
following_add_symmetrical(f, a, b) ==
    [f EXCEPT ![<<a, b>>] = IF @ > 0 THEN @ ELSE 1, ![<<b, a>>] = IF @ > 0 THEN @ ELSE 1]

\* request.user.following.add(target): inserts the row only when it is missing
following_add(f, a, b) == IF f[<<a, b>>] > 0 THEN f ELSE [f EXCEPT ![<<a, b>>] = @ + 1]

\* mutant: following.clear() instead of following.remove(target)
following_remove_all(f, a, b) == [e \in DOMAIN f |-> IF e[1] = a THEN 0 ELSE f[e]]

\* request.user.following.remove(target): deletes every matching row
following_remove(f, a, b) == [f EXCEPT ![<<a, b>>] = 0]

\* A response with a result list or number in its body.
ResponseWith(op, u, arg, status, count, body) ==
    [op |-> op, user |-> u, arg |-> arg, status |-> status, likes_count |-> count,
     body |-> body]

Response(op, u, arg, status, count) == ResponseWith(op, u, arg, status, count, <<>>)

(* ---- initial state: the users exist, every table is empty ---- *)
Init ==
    /\ following = [e \in Users \X Users |-> 0]
    /\ posts = {}
    /\ nextPostId = 1
    /\ comments = {}
    /\ nextCommentId = 1
    /\ likes = [e \in PostIds \X Users |-> 0]
    /\ notifications = <<>>
    /\ resp = Response("none", Anonymous, 0, 0, -1)
    /\ requests = <<>>
    /\ users = {[id |-> u, email |-> u, password |-> FixturePassword] : u \in Users}
    /\ tokens = {}
    /\ nextTokenKey = 1
    /\ books = {}
    /\ nextBookId = 1
    /\ current_year = ThisYear
    /\ libraryUsers = {}
    /\ profiles = <<>>

(* ---- accounts: follow / unfollow ---- *)
\* mutant: the handler without its self-follow guard
FollowUserView_post_no_self_check(u, t) ==
    /\ UNCHANGED <<contentVars, notifications>>
    /\ IF u = Anonymous
       THEN /\ resp' = Response("follow", u, t, 401, -1)
            /\ UNCHANGED following
       ELSE IF ~UserExists(t)
       THEN /\ resp' = Response("follow", u, t, 404, -1)
            /\ UNCHANGED following
       ELSE IF is_following(following, u, t)
       THEN /\ resp' = Response("follow", u, t, 200, -1)
            /\ UNCHANGED following
       ELSE /\ following' = following_add(following, u, t)
            /\ resp' = Response("follow", u, t, 201, -1)

\* POST accounts/follow/<user_id>/
FollowUserView_post(u, t) ==
    /\ UNCHANGED <<contentVars, notifications>>
    /\ IF u = Anonymous
       THEN /\ resp' = Response("follow", u, t, 401, -1)
            /\ UNCHANGED following
       ELSE IF ~UserExists(t)
       THEN /\ resp' = Response("follow", u, t, 404, -1)
            /\ UNCHANGED following
       ELSE IF t = u
       THEN /\ resp' = Response("follow", u, t, 400, -1)
            /\ UNCHANGED following
       ELSE IF is_following(following, u, t)
       THEN /\ resp' = Response("follow", u, t, 200, -1)
            /\ UNCHANGED following
       ELSE /\ following' = following_add(following, u, t)
            /\ resp' = Response("follow", u, t, 201, -1)

\* POST accounts/unfollow/<user_id>/
UnfollowUserView_post(u, t) ==
    /\ UNCHANGED <<contentVars, notifications>>
    /\ IF u = Anonymous
       THEN /\ resp' = Response("unfollow", u, t, 401, -1)
            /\ UNCHANGED following
       ELSE IF ~UserExists(t)
       THEN /\ resp' = Response("unfollow", u, t, 404, -1)
            /\ UNCHANGED following
       ELSE IF t = u
       THEN /\ resp' = Response("unfollow", u, t, 400, -1)
            /\ UNCHANGED following
       ELSE IF ~is_following(following, u, t)
       THEN /\ resp' = Response("unfollow", u, t, 400, -1)
            /\ UNCHANGED following
       ELSE /\ following' = following_remove(following, u, t)
            /\ resp' = Response("unfollow", u, t, 200, -1)

(* ---- accounts: FollowUserView.post, one database statement at a time ---- *)
\* A follow request in flight is [user, target, pc, status]; pc is the
\* statement it runs next: "exists" (line 124), "add" (line 133), "respond",
\* "done".
FollowUserView_dispatch(u, t) ==
    /\ UNCHANGED <<followVars, contentVars, notifications>>
    /\ IF u = Anonymous
       THEN /\ resp' = Response("follow", u, t, 401, -1)
            /\ UNCHANGED requests
       ELSE IF ~UserExists(t)
       THEN /\ resp' = Response("follow", u, t, 404, -1)
            /\ UNCHANGED requests
       ELSE IF t = u
       THEN /\ resp' = Response("follow", u, t, 400, -1)
            /\ UNCHANGED requests
       ELSE /\ Len(requests) < MaxRequests
            /\ requests' = Append(requests, [user |-> u, target |-> t, pc |-> "exists",
                                             status |-> 0])
            /\ UNCHANGED resp

\* request.user.following.filter(pk=target_user.pk).exists()
following_filter_exists(i) ==
    LET r == requests[i]
    IN /\ r.pc = "exists"
       /\ UNCHANGED <<followVars, contentVars, notifications, resp>>
       /\ requests' = [requests EXCEPT ![i] =
                          IF is_following(following, r.user, r.target)
                          THEN [r EXCEPT !.pc = "respond", !.status = 200]
                          ELSE [r EXCEPT !.pc = "add"]]

\* request.user.following.add(target_user), an insert that ignores a conflict
following_add_statement(i) ==
    LET r == requests[i]
    IN /\ r.pc = "add"
       /\ UNCHANGED <<contentVars, notifications, resp>>
       /\ following' = following_add(following, r.user, r.target)
       /\ requests' = [requests EXCEPT ![i] = [r EXCEPT !.pc = "respond", !.status = 201]]

\* return Response(...)
FollowUserView_respond(i) ==
    LET r == requests[i]
    IN /\ r.pc = "respond"
       /\ UNCHANGED <<followVars, contentVars, notifications>>
       /\ requests' = [requests EXCEPT ![i] = [r EXCEPT !.pc = "done"]]
       /\ resp' = Response("follow", r.user, r.target, r.status, -1)

(* ---- accounts: register / login / logout ---- *)
\* Passwords of requests: the fixture's, another valid one, one shorter than
\* min_length and an empty one.
SecurePassword ==
    <<"S", "e", "c", "u", "r", "e", "P", "a", "s", "s", "1", "2", "3", "!">>
Passwords == {FixturePassword, SecurePassword, <<"s", "h", "o", "r", "t">>, <<>>}
\* password = CharField(min_length=8)
min_length == 8

TokensOf(u) == {k \in tokens : k.user = u}
\* The token a response carries; 0 when it carries none.
TokenKey(u) == IF TokensOf(u) = {} THEN 0 ELSE (CHOOSE k \in TokensOf(u) : TRUE).key

AccountResponse(op, u, username, status, email, password, password_confirm, token) ==
    ResponseWith(op, u, username, status, -1,
                 [email |-> email, password |-> password,
                  password_confirm |-> password_confirm, token |-> token])

\* UserRegistrationSerializer.is_valid: username and email unused, password of
\* min_length characters, and the two passwords equal
UserRegistrationSerializer_is_valid(username, email, password, password_confirm) ==
    /\ ~\E r \in users : r.id = username
    /\ ~\E r \in users : r.email = email
    /\ Len(password) >= min_length
    /\ password_confirm # <<>>
    /\ password = password_confirm

\* POST accounts/register/  (UserRegistrationView.create with
\* UserRegistrationSerializer.create: create_user, then Token.objects.create)
UserRegistrationView_create(username, email, password, password_confirm) ==
    /\ UNCHANGED <<followVars, contentVars, notifications, requests, bookVars, profileVars>>
    /\ IF ~UserRegistrationSerializer_is_valid(username, email, password, password_confirm)
       THEN /\ resp' = AccountResponse("register", Anonymous, username, 400,
                                       email, password, password_confirm, 0)
            /\ UNCHANGED accountVars
       ELSE /\ users' = users \cup {[id |-> username, email |-> email,
                                     password |-> password]}
            /\ tokens' = tokens \cup {[user |-> username, key |-> nextTokenKey]}
            /\ nextTokenKey' = nextTokenKey + 1
            /\ resp' = AccountResponse("register", Anonymous, username, 201,
                                       email, password, password_confirm, nextTokenKey)

\* authenticate(username=..., password=...): TRUE when a user is returned
authenticate(username, password) ==
    \E r \in users : r.id = username /\ r.password = password

\* mutant: a token is created at every login
Token_create_always(ts, u, key) == ts \cup {[user |-> u, key |-> key]}

\* Token.objects.get_or_create(user=user): the token table after the call
Token_get_or_create(ts, u, key) ==
    IF \E k \in ts : k.user = u THEN ts ELSE ts \cup {[user |-> u, key |-> key]}

\* POST accounts/login/  (UserLoginView.post)
UserLoginView_post(username, password) ==
    /\ UNCHANGED <<followVars, contentVars, notifications, requests, bookVars, profileVars>>
    /\ UNCHANGED users
    /\ IF password = <<>>
       THEN /\ resp' = AccountResponse("login", Anonymous, username, 400, 0, password, <<>>, 0)
            /\ UNCHANGED <<tokens, nextTokenKey>>
       ELSE IF authenticate(username, password)
       THEN /\ tokens' = Token_get_or_create(tokens, username, nextTokenKey)
            /\ nextTokenKey' = IF tokens' = tokens THEN nextTokenKey ELSE nextTokenKey + 1
            /\ resp' = AccountResponse("login", Anonymous, username, 200, 0, password, <<>>,
                                       IF TokensOf(username) = {} THEN nextTokenKey
                                       ELSE TokenKey(username))
       ELSE /\ resp' = AccountResponse("login", Anonymous, username, 401, 0, password, <<>>, 0)
            /\ UNCHANGED <<tokens, nextTokenKey>>

\* POST accounts/logout/  (UserLogoutView.post). A caller with no token is
\* refused by token authentication (401), or, authenticated by another
\* scheme, fails on request.user.auth_token (400).
UserLogoutView_post(u) ==
    /\ UNCHANGED <<followVars, contentVars, notifications, requests, bookVars, profileVars>>
    /\ UNCHANGED <<users, nextTokenKey>>
    /\ IF u = Anonymous
       THEN /\ resp' = AccountResponse("logout", u, u, 401, 0, <<>>, <<>>, 0)
            /\ UNCHANGED tokens
       ELSE IF TokensOf(u) = {}
       THEN /\ \E s \in {400, 401} :
                  resp' = AccountResponse("logout", u, u, s, 0, <<>>, <<>>, 0)
            /\ UNCHANGED tokens
       ELSE /\ tokens' = tokens \ TokensOf(u)
            /\ resp' = AccountResponse("logout", u, u, 200, 0, <<>>, <<>>, 0)

(* ---- notifications.services ---- *)
\* A target object handed to create_notification; NoTarget is target=None.
NoTarget == [model |-> "none", pk |-> 0]

NewNotification(recipient, actor, verb, content_type, object_id, metadata) ==
    [recipient |-> recipient, actor |-> actor, verb |-> verb,
     content_type |-> content_type, object_id |-> object_id,
     metadata |-> metadata, is_read |-> FALSE]

\* mutant: a notification to oneself is skipped whatever skip_self says
create_notification_skip_always(ns, recipient, actor, verb, target, metadata, skip_self) ==
    IF recipient = actor
    THEN ns
    ELSE Append(ns, NewNotification(recipient, actor, verb,
                    IF target = NoTarget THEN "null" ELSE target.model,
                    IF target = NoTarget THEN 0 ELSE target.pk,
                    metadata))

\* mutant: skip_self is ignored
create_notification_no_skip(ns, recipient, actor, verb, target, metadata, skip_self) ==
    Append(ns, NewNotification(recipient, actor, verb,
                   IF target = NoTarget THEN "null" ELSE target.model,
                   IF target = NoTarget THEN 0 ELSE target.pk,
                   metadata))

\* create_notification(recipient, actor, verb, target, metadata=..., skip_self=...):
\* the notification table after the call.
create_notification(ns, recipient, actor, verb, target, metadata, skip_self) ==
    IF skip_self /\ recipient = actor
    THEN ns
    ELSE Append(ns, NewNotification(recipient, actor, verb,
                    IF target = NoTarget THEN "null" ELSE target.model,
                    IF target = NoTarget THEN 0 ELSE target.pk,
                    metadata))

\* metadata=None
NoMetadata == [post_id |-> 0]

\* What create_notification returns: the primary key of the row it created, 0
\* for None.
create_notification_returns(ns, recipient, actor, skip_self) ==
    IF skip_self /\ recipient = actor THEN 0 ELSE Len(ns) + 1

\* A call of create_notification on the current table; the arguments and the
\* returned value are kept in resp.
create_notification_call(recipient, actor, verb, target, metadata, skip_self) ==
    /\ UNCHANGED <<followVars, contentVars>>
    /\ notifications' = create_notification(notifications, recipient, actor, verb,
                                            target, metadata, skip_self)
    /\ Len(notifications') <= MaxNotifications
    /\ resp' = ResponseWith("create_notification", actor, recipient, 0, -1,
                   [recipient |-> recipient, actor |-> actor, verb |-> verb,
                    target |-> target, metadata |-> metadata, skip_self |-> skip_self,
                    returned |-> create_notification_returns(notifications, recipient,
                                                             actor, skip_self)])

(* ---- posts: serializers ---- *)
\* PostSerializer.validate_title / validate_content, CommentSerializer.validate_content:
\* TRUE when the value is accepted
validate_title(value) == strip(value) # <<>>
validate_content(value) == strip(value) # <<>>

\* mutant: the test without strip()
validate_comment_content_no_strip(value) == value # <<>>

validate_comment_content(value) == strip(value) # <<>>

\* rest_framework.permissions.SAFE_METHODS
SAFE_METHODS == {"GET", "HEAD", "OPTIONS"}

\* mutant: any authenticated user may modify
IsOwnerOrReadOnly_any_user(method, obj, u) == TRUE

\* IsOwnerOrReadOnly.has_object_permission
IsOwnerOrReadOnly(method, obj, u) ==
    IF method \in SAFE_METHODS THEN TRUE ELSE obj.author = u

PostExists(p) == \E r \in posts : r.id = p
PostById(p) == CHOOSE r \in posts : r.id = p

RECURSIVE SumOver(_, _)
SumOver(S, f) == IF S = {} THEN 0
                 ELSE LET x == CHOOSE y \in S : TRUE
                      IN f[x] + SumOver(S \ {x}, f)

\* mutant: the count without its post filter
likes_count_all_posts(l, p) == SumOver(DOMAIN l, l)

\* Like.objects.filter(post=post).count()
likes_count(l, p) == SumOver({<<p, u>> : u \in Users}, l)

(* ---- posts: views ---- *)
\* mutant: an author sent in the body is written
read_only_author_writable(current, author) == IF author # 0 THEN author ELSE current

\* author is in read_only_fields: the value a body sends for it (0 when it
\* sends none) never reaches validated_data, and the row gets or keeps the
\* author the view supplies (request.user at creation, the stored one after)
read_only_author(current, author) == current

\* mutant: the viewset without its authentication check
PostViewSet_create_allow_any(u, title, content, author) ==
    /\ UNCHANGED <<followVars, comments, nextCommentId, likes, notifications>>
    /\ IF ~validate_title(title) \/ ~validate_content(content)
       THEN /\ resp' = Response("create_post", u, 0, 400, -1)
            /\ UNCHANGED <<posts, nextPostId>>
       ELSE /\ nextPostId <= MaxPosts
            /\ posts' = posts \cup {[id |-> nextPostId, author |-> read_only_author(u, author),
                                     title |-> title, content |-> content]}
            /\ nextPostId' = nextPostId + 1
            /\ resp' = ResponseWith("create_post", u, nextPostId, 201, -1,
                                    [author |-> author])

\* POST posts/  (PostViewSet.create -> perform_create)
PostViewSet_create(u, title, content, author) ==
    /\ UNCHANGED <<followVars, comments, nextCommentId, likes, notifications>>
    /\ IF u = Anonymous
       THEN /\ resp' = Response("create_post", u, 0, 401, -1)
            /\ UNCHANGED <<posts, nextPostId>>
       ELSE IF ~validate_title(title) \/ ~validate_content(content)
       THEN /\ resp' = Response("create_post", u, 0, 400, -1)
            /\ UNCHANGED <<posts, nextPostId>>
       ELSE /\ nextPostId <= MaxPosts
            /\ posts' = posts \cup {[id |-> nextPostId, author |-> read_only_author(u, author),
                                     title |-> title, content |-> content]}
            /\ nextPostId' = nextPostId + 1
            /\ resp' = ResponseWith("create_post", u, nextPostId, 201, -1,
                                    [author |-> author])

\* auto_now_add: creation times grow with the primary key
created_at(row) == row.id

\* QuerySet.order_by('-<field>'): the rows of S as a sequence, greatest key first
RECURSIVE order_by_desc(_, _)
order_by_desc(S, key) ==
    IF S = {} THEN <<>>
    ELSE LET top == CHOOSE r \in S : \A o \in S : key[o] <= key[r]
         IN <<top>> \o order_by_desc(S \ {top}, key)

Ids(rows) == [i \in 1..Len(rows) |-> rows[i].id]

\* mutant: the feed also lists the requester's own posts
FeedView_get_queryset_with_own(u) ==
    LET rows == {r \in posts : is_following(following, u, r.author) \/ r.author = u}
    IN order_by_desc(rows, [r \in rows |-> created_at(r)])

\* FeedView.get_queryset: Post.objects.filter(author__in=user.following.all())
\*                                     .order_by('-created_at')
FeedView_get_queryset(u) ==
    LET rows == {r \in posts : is_following(following, u, r.author)}
    IN order_by_desc(rows, [r \in rows |-> created_at(r)])

\* GET feed/
FeedView_get(u) ==
    /\ UNCHANGED <<followVars, contentVars, notifications>>
    /\ IF u = Anonymous
       THEN resp' = Response("feed", u, 0, 401, -1)
       ELSE resp' = ResponseWith("feed", u, 0, 200, -1, Ids(FeedView_get_queryset(u)))

\* mutant: the post goes, its comments and likes stay
PostViewSet_destroy_no_cascade(u, p) ==
    /\ UNCHANGED <<followVars, nextPostId, nextCommentId, notifications>>
    /\ IF u = Anonymous
       THEN /\ resp' = Response("delete_post", u, p, 401, -1)
            /\ UNCHANGED <<posts, comments, likes>>
       ELSE IF ~PostExists(p)
       THEN /\ resp' = Response("delete_post", u, p, 404, -1)
            /\ UNCHANGED <<posts, comments, likes>>
       ELSE IF ~IsOwnerOrReadOnly("DELETE", PostById(p), u)
       THEN /\ resp' = Response("delete_post", u, p, 403, -1)
            /\ UNCHANGED <<posts, comments, likes>>
       ELSE /\ posts' = posts \ {PostById(p)}
            /\ UNCHANGED <<comments, likes>>
            /\ resp' = Response("delete_post", u, p, 204, -1)

\* DELETE posts/<pk>/  (PostViewSet.destroy); comments and likes of the post
\* go with it (on_delete=CASCADE)
PostViewSet_destroy(u, p) ==
    /\ UNCHANGED <<followVars, nextPostId, nextCommentId, notifications>>
    /\ IF u = Anonymous
       THEN /\ resp' = Response("delete_post", u, p, 401, -1)
            /\ UNCHANGED <<posts, comments, likes>>
       ELSE IF ~PostExists(p)
       THEN /\ resp' = Response("delete_post", u, p, 404, -1)
            /\ UNCHANGED <<posts, comments, likes>>
       ELSE IF ~IsOwnerOrReadOnly("DELETE", PostById(p), u)
       THEN /\ resp' = Response("delete_post", u, p, 403, -1)
            /\ UNCHANGED <<posts, comments, likes>>
       ELSE /\ posts' = posts \ {PostById(p)}
            /\ comments' = {c \in comments : c.post # p}
            /\ likes' = [e \in DOMAIN likes |-> IF e[1] = p THEN 0 ELSE likes[e]]
            /\ resp' = Response("delete_post", u, p, 204, -1)

(* ---- accounts: deletion of a user ---- *)
\* CustomUser.delete() (the admin site): every row whose foreign key to the
\* user is on_delete=CASCADE goes with it: the user's posts with their comments
\* and likes, the user's comments and likes, the notifications received or
\* caused, the token, and the follow edges from and to the user. The
\* notifications that stay keep their order.
User_delete(t) ==
    /\ UserExists(t)
    /\ UNCHANGED <<nextPostId, nextCommentId, nextTokenKey, requests, bookVars, profileVars>>
    /\ users' = {r \in users : r.id # t}
    /\ tokens' = {k \in tokens : k.user # t}
    /\ following' = [e \in DOMAIN following |->
                        IF e[1] = t \/ e[2] = t THEN 0 ELSE following[e]]
    /\ LET gone == {p.id : p \in {x \in posts : x.author = t}}
       IN /\ posts' = {p \in posts : p.author # t}
          /\ comments' = {c \in comments : c.author # t /\ c.post \notin gone}
          /\ likes' = [e \in DOMAIN likes |->
                          IF e[2] = t \/ e[1] \in gone THEN 0 ELSE likes[e]]
    /\ notifications' = SelectSeq(notifications,
                                  LAMBDA n : n.recipient # t /\ n.actor # t)
    /\ resp' = Response("delete_user", Anonymous, t, 0, -1)

(* ---- notifications: views ---- *)
\* The Notification rows with their primary key and timestamp (both grow with
\* the order of creation).
NotificationRows ==
    { [id |-> i, timestamp |-> i, recipient |-> notifications[i].recipient,
       is_read |-> notifications[i].is_read] : i \in 1..Len(notifications) }

\* NotificationQuerySet.for_user
for_user(rows, u) == {r \in rows : r.recipient = u}

\* NotificationQuerySet.unread
unread(rows) == {r \in rows : r.is_read = FALSE}

\* QuerySet.order_by('is_read', '-timestamp'): False sorts before True
RECURSIVE order_by_is_read_timestamp(_)
order_by_is_read_timestamp(S) ==
    IF S = {} THEN <<>>
    ELSE LET first == CHOOSE r \in S : \A o \in S :
                          \/ (~r.is_read /\ o.is_read)
                          \/ (r.is_read = o.is_read /\ r.timestamp >= o.timestamp)
         IN <<first>> \o order_by_is_read_timestamp(S \ {first})

\* mutant: the default Meta.ordering ('-timestamp',) alone
NotificationListView_get_queryset_by_time(u) ==
    LET rows == for_user(NotificationRows, u)
    IN order_by_desc(rows, [r \in rows |-> r.timestamp])

\* NotificationListView.get_queryset
NotificationListView_get_queryset(u) ==
    order_by_is_read_timestamp(for_user(NotificationRows, u))

\* GET notifications/  (NotificationListView.list)
NotificationListView_list(u) ==
    /\ UNCHANGED <<followVars, contentVars, notifications>>
    /\ IF u = Anonymous
       THEN resp' = Response("list_notifications", u, 0, 401, -1)
       ELSE resp' = ResponseWith("list_notifications", u, 0, 200, -1,
                        [results |-> Ids(NotificationListView_get_queryset(u)),
                         unread_count |-> Cardinality(unread(for_user(NotificationRows, u)))])

\* mutant: the lookup is made in every user's notifications
NotificationMarkReadView_get_queryset_all(u) == NotificationRows

\* NotificationMarkReadView.get_queryset
NotificationMarkReadView_get_queryset(u) == for_user(NotificationRows, u)

\* mutant: the flag is flipped
mark_read_toggle(n) == [n EXCEPT !.is_read = ~n.is_read]

\* Notification.mark_read: the row after the call
mark_read(n) == IF ~n.is_read THEN [n EXCEPT !.is_read = TRUE] ELSE n

\* POST notifications/<pk>/read/
NotificationMarkReadView_post(u, pk) ==
    /\ UNCHANGED <<followVars, contentVars>>
    /\ IF u = Anonymous
       THEN /\ resp' = Response("mark_read", u, pk, 401, -1)
            /\ UNCHANGED notifications
       ELSE IF ~\E r \in NotificationMarkReadView_get_queryset(u) : r.id = pk
       THEN /\ resp' = Response("mark_read", u, pk, 404, -1)
            /\ UNCHANGED notifications
       ELSE /\ notifications' = [notifications EXCEPT ![pk] = mark_read(@)]
            /\ resp' = Response("mark_read", u, pk, 200, -1)

\* mutant: the update without its for_user filter
mark_all_read_every_user(ns, u) ==
    [i \in 1..Len(ns) |-> [ns[i] EXCEPT !.is_read = TRUE]]

\* Notification.objects.for_user(user).unread().update(is_read=True): the table
\* after the call
mark_all_read(ns, u) ==
    [i \in 1..Len(ns) |->
        IF ns[i].recipient = u /\ ~ns[i].is_read
        THEN [ns[i] EXCEPT !.is_read = TRUE] ELSE ns[i]]

\* POST notifications/read-all/
NotificationMarkAllReadView_post(u) ==
    /\ UNCHANGED <<followVars, contentVars>>
    /\ IF u = Anonymous
       THEN /\ resp' = Response("mark_all_read", u, 0, 401, -1)
            /\ UNCHANGED notifications
       ELSE LET updated == Cardinality(unread(for_user(NotificationRows, u)))
            IN /\ notifications' = mark_all_read(notifications, u)
               /\ resp' = ResponseWith("mark_all_read", u, 0, 200, -1, updated)

\* A field left out of a request body.
Absent == <<"<absent>">>

\* PUT / PATCH posts/<pk>/ requests: the method and the fields of the body.
PostBody(method, title, content, author) ==
    [method |-> method, title |-> title, content |-> content, author |-> author]
PostBodies == { PostBody("PUT", <<"E", "d">>, <<"H", "i">>, 0),
                PostBody("PATCH", <<"E", "d">>, Absent, 0),
                PostBody("PATCH", <<" ", "\t">>, Absent, 0) }
\* The same requests with an author in the body.
PostBodiesWithAuthor ==
    {PostBody("PUT", <<"E", "d">>, <<"H", "i">>, a) : a \in Users}
    \cup {PostBody("PATCH", Absent, Absent, a) : a \in Users}

\* PUT / PATCH comments/<pk>/ requests; post 0 is a body without the post field.
CommentBody(method, post, content, author) ==
    [method |-> method, post |-> post, content |-> content, author |-> author]
CommentBodies == { CommentBody("PATCH", 0, <<"E", "d">>, 0),
                   CommentBody("PATCH", 0, <<" ", "\t">>, 0),
                   CommentBody("PUT", 1, <<"E", "d">>, 0) }
CommentBodiesWithAuthor ==
    {CommentBody("PUT", 1, <<"E", "d">>, a) : a \in Users}
    \cup {CommentBody("PATCH", 0, Absent, a) : a \in Users}

\* ModelSerializer.is_valid for an update: unless partial (PATCH) every
\* writable field is required; a field that is present is validated
PostSerializer_is_valid(method, data) ==
    /\ (method = "PUT" => data.title # Absent /\ data.content # Absent)
    /\ (data.title # Absent => validate_title(data.title))
    /\ (data.content # Absent => validate_content(data.content))

CommentSerializer_is_valid(method, data) ==
    /\ (method = "PUT" => data.post # 0 /\ data.content # Absent)
    /\ (data.post # 0 => PostExists(data.post))
    /\ (data.content # Absent => validate_comment_content(data.content))

CommentExists(c) == \E r \in comments : r.id = c
CommentById(c) == CHOOSE r \in comments : r.id = c

\* PUT / PATCH posts/<pk>/  (PostViewSet.update / partial_update)
PostViewSet_update(u, p, method, data) ==
    /\ UNCHANGED <<followVars, nextPostId, comments, nextCommentId, likes, notifications>>
    /\ IF u = Anonymous
       THEN /\ resp' = Response("update_post", u, p, 401, -1)
            /\ UNCHANGED posts
       ELSE IF ~PostExists(p)
       THEN /\ resp' = Response("update_post", u, p, 404, -1)
            /\ UNCHANGED posts
       ELSE IF ~IsOwnerOrReadOnly(method, PostById(p), u)
       THEN /\ resp' = Response("update_post", u, p, 403, -1)
            /\ UNCHANGED posts
       ELSE IF ~PostSerializer_is_valid(method, data)
       THEN /\ resp' = Response("update_post", u, p, 400, -1)
            /\ UNCHANGED posts
       ELSE LET old == PostById(p)
                new == [old EXCEPT
                          !.author = read_only_author(@, data.author),
                          !.title = IF data.title # Absent THEN data.title ELSE @,
                          !.content = IF data.content # Absent THEN data.content ELSE @]
            IN /\ posts' = (posts \ {old}) \cup {new}
               /\ resp' = ResponseWith("update_post", u, p, 200, -1,
                                       [author |-> data.author])

\* PUT / PATCH comments/<pk>/  (CommentViewSet.update / partial_update)
CommentViewSet_update(u, c, method, data) ==
    /\ UNCHANGED <<followVars, posts, nextPostId, nextCommentId, likes, notifications>>
    /\ IF u = Anonymous
       THEN /\ resp' = Response("update_comment", u, c, 401, -1)
            /\ UNCHANGED comments
       ELSE IF ~CommentExists(c)
       THEN /\ resp' = Response("update_comment", u, c, 404, -1)
            /\ UNCHANGED comments
       ELSE IF ~IsOwnerOrReadOnly(method, CommentById(c), u)
       THEN /\ resp' = Response("update_comment", u, c, 403, -1)
            /\ UNCHANGED comments
       ELSE IF ~CommentSerializer_is_valid(method, data)
       THEN /\ resp' = Response("update_comment", u, c, 400, -1)
            /\ UNCHANGED comments
       ELSE LET old == CommentById(c)
                new == [old EXCEPT
                          !.author = read_only_author(@, data.author),
                          !.post = IF data.post # 0 THEN data.post ELSE @,
                          !.content = IF data.content # Absent THEN data.content ELSE @]
            IN /\ comments' = (comments \ {old}) \cup {new}
               /\ resp' = ResponseWith("update_comment", u, c, 200, -1,
                                       [author |-> data.author])

\* DELETE comments/<pk>/  (CommentViewSet.destroy)
CommentViewSet_destroy(u, c) ==
    /\ UNCHANGED <<followVars, posts, nextPostId, nextCommentId, likes, notifications>>
    /\ IF u = Anonymous
       THEN /\ resp' = Response("delete_comment", u, c, 401, -1)
            /\ UNCHANGED comments
       ELSE IF ~CommentExists(c)
       THEN /\ resp' = Response("delete_comment", u, c, 404, -1)
            /\ UNCHANGED comments
       ELSE IF ~IsOwnerOrReadOnly("DELETE", CommentById(c), u)
       THEN /\ resp' = Response("delete_comment", u, c, 403, -1)
            /\ UNCHANGED comments
       ELSE /\ comments' = comments \ {CommentById(c)}
            /\ resp' = Response("delete_comment", u, c, 204, -1)

\* mutant: create() instead of get_or_create()
Like_create_always(l, u, p) ==
    [rows |-> [l EXCEPT ![<<p, u>>] = @ + 1], created |-> TRUE]

\* Like.objects.get_or_create(user=user, post=post): the Like table after the
\* call, and whether a row was inserted
Like_get_or_create(l, u, p) ==
    IF l[<<p, u>>] > 0
    THEN [rows |-> l, created |-> FALSE]
    ELSE [rows |-> [l EXCEPT ![<<p, u>>] = @ + 1], created |-> TRUE]

\* mutant: the delete without its user filter
Like_filter_delete_any_user(l, u, p) ==
    [rows |-> [e \in DOMAIN l |-> IF e[1] = p THEN 0 ELSE l[e]], deleted |-> l[<<p, u>>]]

\* Like.objects.filter(user=user, post=post).delete(): the Like table after the
\* call, and the number of rows deleted
Like_filter_delete(l, u, p) ==
    [rows |-> [l EXCEPT ![<<p, u>>] = 0], deleted |-> l[<<p, u>>]]

\* mutant: the notification goes to the liker
like_notification_to_liker(ns, post, u) ==
    IF post.author # u
    THEN Append(ns, NewNotification(u, u, "liked your post", "post", post.id,
                        [post_id |-> post.id, post_title |-> post.title]))
    ELSE ns

\* mutant: the author check is missing
like_notification_always(ns, post, u) ==
    Append(ns, NewNotification(post.author, u, "liked your post", "post", post.id,
                   [post_id |-> post.id, post_title |-> post.title]))

\* The notification a created Like emits: none when the liker is the post's author
like_notification(ns, post, u) ==
    IF post.author # u
    THEN Append(ns, NewNotification(post.author, u, "liked your post", "post", post.id,
                        [post_id |-> post.id, post_title |-> post.title]))
    ELSE ns

\* POST posts/<pk>/like/
PostLikeView_post(u, p) ==
    /\ UNCHANGED <<followVars, posts, nextPostId, comments, nextCommentId>>
    /\ IF u = Anonymous
       THEN /\ resp' = Response("like", u, p, 401, -1)
            /\ UNCHANGED <<likes, notifications>>
       ELSE IF ~PostExists(p)
       THEN /\ resp' = Response("like", u, p, 404, -1)
            /\ UNCHANGED <<likes, notifications>>
       ELSE LET post == PostById(p)
                got == Like_get_or_create(likes, u, p)
            IN /\ likes' = got.rows
               /\ IF got.created
                  THEN /\ notifications' = like_notification(notifications, post, u)
                       /\ Len(notifications') <= MaxNotifications
                       /\ resp' = Response("like", u, p, 201, likes_count(likes', p))
                  ELSE /\ UNCHANGED notifications
                       /\ resp' = Response("like", u, p, 200, likes_count(likes', p))

(* ---- posts: PostLikeView.post, one database statement at a time ---- *)
\* mutant: the Like table without its constraint
unique_post_like_absent(l, u, p) == TRUE

\* UniqueConstraint(fields=('post', 'user')): TRUE when the table accepts a
\* new row for (p, u)
unique_post_like(l, u, p) == l[<<p, u>>] = 0

SetRequest(i, r) == requests' = [requests EXCEPT ![i] = r]

\* The request enters the view: authentication, then get_object_or_404.
PostLikeView_dispatch(u, p) ==
    /\ UNCHANGED <<followVars, contentVars, notifications>>
    /\ IF u = Anonymous
       THEN /\ resp' = Response("like", u, p, 401, -1)
            /\ UNCHANGED requests
       ELSE IF ~PostExists(p)
       THEN /\ resp' = Response("like", u, p, 404, -1)
            /\ UNCHANGED requests
       ELSE /\ Len(requests) < MaxRequests
            /\ requests' = Append(requests, [user |-> u, post |-> p, pc |-> "get",
                                             created |-> FALSE, caught |-> FALSE,
                                             status |-> 0])
            /\ UNCHANGED resp

\* get_or_create: the SELECT of self.get(**kwargs)
get_or_create_get(i) ==
    LET r == requests[i]
    IN /\ r.pc = "get"
       /\ UNCHANGED <<followVars, contentVars, notifications, resp>>
       /\ IF likes[<<r.post, r.user>>] > 0
          THEN SetRequest(i, [r EXCEPT !.pc = "respond", !.created = FALSE])
          ELSE SetRequest(i, [r EXCEPT !.pc = "create"])

\* get_or_create: the INSERT of self.create(**params); an IntegrityError is
\* caught and the row is read back with self.get(**kwargs)
get_or_create_create(i) ==
    LET r == requests[i]
    IN /\ r.pc = "create"
       /\ UNCHANGED <<followVars, posts, nextPostId, comments, nextCommentId,
                      notifications, resp>>
       /\ IF unique_post_like(likes, r.user, r.post)
          THEN /\ likes' = [likes EXCEPT ![<<r.post, r.user>>] = @ + 1]
               /\ SetRequest(i, [r EXCEPT !.pc = "notify", !.created = TRUE])
          ELSE /\ UNCHANGED likes
               /\ SetRequest(i, [r EXCEPT !.pc = "respond", !.created = FALSE,
                                           !.caught = TRUE])

\* if created: the notification of the post's author
PostLikeView_notify(i) ==
    LET r == requests[i]
    IN /\ r.pc = "notify"
       /\ UNCHANGED <<followVars, contentVars, resp>>
       /\ notifications' = like_notification(notifications, PostById(r.post), r.user)
       /\ Len(notifications') <= MaxNotifications
       /\ SetRequest(i, [r EXCEPT !.pc = "respond"])

\* Notification.objects.create raises (the database refuses the statement):
\* the exception leaves the view as a 500; the Like row, inserted by an
\* earlier statement outside any transaction, stays
PostLikeView_notify_raises(i) ==
    LET r == requests[i]
    IN /\ r.pc = "notify"
       /\ PostById(r.post).author # r.user
       /\ UNCHANGED <<followVars, contentVars, notifications>>
       /\ SetRequest(i, [r EXCEPT !.pc = "done", !.status = 500])
       /\ resp' = Response("like", r.user, r.post, 500, -1)

\* the count and the response
PostLikeView_respond(i) ==
    LET r == requests[i]
        status == IF r.created THEN 201 ELSE 200
    IN /\ r.pc = "respond"
       /\ UNCHANGED <<followVars, contentVars, notifications>>
       /\ SetRequest(i, [r EXCEPT !.pc = "done", !.status = status])
       /\ resp' = Response("like", r.user, r.post, status, likes_count(likes, r.post))

\* POST posts/<pk>/unlike/
PostUnlikeView_post(u, p) ==
    /\ UNCHANGED <<followVars, posts, nextPostId, comments, nextCommentId, notifications>>
    /\ IF u = Anonymous
       THEN /\ resp' = Response("unlike", u, p, 401, -1)
            /\ UNCHANGED likes
       ELSE IF ~PostExists(p)
       THEN /\ resp' = Response("unlike", u, p, 404, -1)
            /\ UNCHANGED likes
       ELSE LET del == Like_filter_delete(likes, u, p)
            IN /\ likes' = del.rows
               /\ IF del.deleted > 0
                  THEN resp' = Response("unlike", u, p, 200, likes_count(likes', p))
                  ELSE resp' = Response("unlike", u, p, 400, -1)

\* POST comments/  (CommentViewSet.create -> perform_create)
CommentViewSet_create(u, p, content, author) ==
    /\ UNCHANGED <<followVars, posts, nextPostId, likes>>
    /\ IF u = Anonymous
       THEN /\ resp' = Response("create_comment", u, p, 401, -1)
            /\ UNCHANGED <<comments, nextCommentId, notifications>>
       ELSE IF ~PostExists(p) \/ ~validate_comment_content(content)
       THEN /\ resp' = Response("create_comment", u, p, 400, -1)
            /\ UNCHANGED <<comments, nextCommentId, notifications>>
       ELSE LET post == PostById(p)
                comment == [id |-> nextCommentId, post |-> p,
                            author |-> read_only_author(u, author), content |-> content]
            IN /\ nextCommentId <= MaxComments
               /\ comments' = comments \cup {comment}
               /\ nextCommentId' = nextCommentId + 1
               /\ notifications' = create_notification(notifications, post.author, u,
                      "commented on your post", [model |-> "post", pk |-> p],
                      [comment_id |-> comment.id, post_id |-> p], TRUE)
               /\ Len(notifications') <= MaxNotifications
               /\ resp' = ResponseWith("create_comment", u, p, 201, -1,
                                       [author |-> author])

(* ---- advanced-api-project: the book API ---- *)
\* The authors and the users the API's tests create; a request can also name
\* an author key with no row behind it.
Authors == {1, 2}
AuthorIds == 1..(Cardinality(Authors) + 1)
BookUsers == {1, 2}
BookCallers == {Anonymous} \cup BookUsers
BookIds == 1..(MaxBooks + 1)

\* Titles, two of them equal but for the case of their first letter.
BookTitles == { <<"D", "u", "n", "e">>, <<"d", "u", "n", "e">>, <<"E", "m", "m", "a">> }
\* The clock reaches one more year; the years of requests go from the year
\* before the first to the year after the last.
LastYear == ThisYear + 1
Years == (ThisYear - 1)..(LastYear + 1)

\* str.lower on the letters the titles are written in
UpperCase == <<"D", "E">>
LowerCase == <<"d", "e">>
lower_char(c) ==
    IF \E i \in DOMAIN UpperCase : UpperCase[i] = c
    THEN LowerCase[CHOOSE i \in DOMAIN UpperCase : UpperCase[i] = c]
    ELSE c
lower(s) == [i \in DOMAIN s |-> lower_char(s[i])]
\* the title__iexact lookup
iexact(a, b) == lower(a) = lower(b)

\* A body: the method and the three writable fields; a field left out is
\* Absent (title) or 0 (author, publication_year).
BookData(method, title, author, publication_year) ==
    [method |-> method, title |-> title, author |-> author,
     publication_year |-> publication_year]
HasTitle(data) == data.title # Absent
HasAuthor(data) == data.author # 0
HasYear(data) == data.publication_year # 0

BookExists(pk) == \E b \in books : b.id = pk
BookById(pk) == CHOOSE b \in books : b.id = pk
\* The row a request is about when there is none (a create).
NoBook == [id |-> 0, title |-> Absent, author |-> 0, publication_year |-> 0]

\* validated_data.get(field, instance.field): the values the row would have
NewValues(instance, data) ==
    [id |-> instance.id,
     title |-> IF HasTitle(data) THEN data.title ELSE instance.title,
     author |-> IF HasAuthor(data) THEN data.author ELSE instance.author,
     publication_year |-> IF HasYear(data) THEN data.publication_year
                          ELSE instance.publication_year]

\* mutant: a year is refused only when it is two years ahead or more
validate_publication_year_next_year_allowed(value) == value <= current_year + 1

\* BookSerializer.validate_publication_year
validate_publication_year(value) == ~(value > current_year)

\* The validator ModelSerializer derives from Meta.unique_together: another
\* row with exactly this title, this author and this year.
UniqueTogetherValidator(instance, row) ==
    ~\E b \in books : /\ b.id # instance.id
                      /\ b.title = row.title
                      /\ b.author = row.author
                      /\ b.publication_year = row.publication_year

\* BookSerializer.is_valid: the names of the fields in error. Unless the
\* update is partial every field is required; the author must exist, the year
\* passes validate_publication_year; the unique-together validator runs when
\* no field failed.
BookSerializer_errors(instance, data) ==
    LET partial == data.method = "PATCH"
        fieldErrors ==
            {f \in {"title"} : ~HasTitle(data) /\ ~partial}
            \cup {f \in {"author"} :
                     IF HasAuthor(data) THEN data.author \notin Authors ELSE ~partial}
            \cup {f \in {"publication_year"} :
                     IF HasYear(data) THEN ~validate_publication_year(data.publication_year)
                     ELSE ~partial}
    IN IF fieldErrors # {} THEN fieldErrors
       ELSE IF ~UniqueTogetherValidator(instance, NewValues(instance, data))
       THEN {"non_field_errors"}
       ELSE {}

\* The duplicate check of perform_create / perform_update: another row with
\* the same author and year whose title differs at most by case.
duplicate_exists(instance, row) ==
    \E b \in books : /\ b.id # instance.id
                     /\ iexact(b.title, row.title)
                     /\ b.author = row.author
                     /\ b.publication_year = row.publication_year

\* What an unauthenticated caller is answered: 401 when the first
\* authentication class sends a WWW-Authenticate header, 403 otherwise.
NotAuthenticated == {401, 403}

BookResponse(op, u, pk, status, data, errors) ==
    ResponseWith(op, u, pk, status, -1, [data |-> data, errors |-> errors])

\* The steps shared by the two create views and the two update views.
Refuse(op, u, pk, status, data, errors) ==
    /\ resp' = BookResponse(op, u, pk, status, data, errors)
    /\ UNCHANGED <<books, nextBookId>>
RefuseAnonymous(op, u, pk, data) ==
    \E s \in NotAuthenticated : Refuse(op, u, pk, s, data, {})
SaveNew(op, u, data) ==
    /\ books' = books \cup {[NewValues(NoBook, data) EXCEPT !.id = nextBookId]}
    /\ nextBookId' = nextBookId + 1
    /\ resp' = BookResponse(op, u, nextBookId, 201, data, {})
Save(op, u, pk, data) ==
    /\ books' = (books \ {BookById(pk)}) \cup {NewValues(BookById(pk), data)}
    /\ resp' = BookResponse(op, u, pk, 200, data, {})
    /\ UNCHANGED nextBookId
Delete(op, u, pk, data) ==
    /\ books' = books \ {BookById(pk)}
    /\ resp' = BookResponse(op, u, pk, 204, data, {})
    /\ UNCHANGED nextBookId

\* mutant: the combined endpoint lets an unauthenticated caller create
BookListCreateView_post_allow_any(u, data) ==
    /\ UNCHANGED current_year
    /\ IF BookSerializer_errors(NoBook, data) # {}
       THEN Refuse("books", u, 0, 400, data, BookSerializer_errors(NoBook, data))
       ELSE SaveNew("books", u, data)

\* POST books/  (BookListCreateView: IsAuthenticatedOrReadOnly, is_valid,
\* perform_create = serializer.save())
BookListCreateView_post(u, data) ==
    /\ UNCHANGED current_year
    /\ IF u = Anonymous
       THEN RefuseAnonymous("books", u, 0, data)
       ELSE IF BookSerializer_errors(NoBook, data) # {}
       THEN Refuse("books", u, 0, 400, data, BookSerializer_errors(NoBook, data))
       ELSE SaveNew("books", u, data)

\* GET books/  (BookListCreateView.list): any caller
BookListCreateView_get(u) ==
    /\ resp' = ResponseWith("list_books", u, 0, 200, -1, books)
    /\ UNCHANGED bookVars

\* POST books/create/  (BookCreateView: IsAuthenticated, is_valid,
\* perform_create with the case-insensitive duplicate check)
BookCreateView_post(u, data) ==
    /\ UNCHANGED current_year
    /\ IF u = Anonymous
       THEN RefuseAnonymous("books/create", u, 0, data)
       ELSE IF BookSerializer_errors(NoBook, data) # {}
       THEN Refuse("books/create", u, 0, 400, data, BookSerializer_errors(NoBook, data))
       ELSE IF duplicate_exists(NoBook, NewValues(NoBook, data))
       THEN Refuse("books/create", u, 0, 400, data, {"already exists"})
       ELSE SaveNew("books/create", u, data)

\* GET books/<pk>/  (BookRetrieveUpdateDeleteView.retrieve): any caller
BookRetrieveUpdateDeleteView_get(u, pk) ==
    /\ UNCHANGED bookVars
    /\ IF BookExists(pk)
       THEN resp' = ResponseWith("book", u, pk, 200, -1, {BookById(pk)})
       ELSE resp' = ResponseWith("book", u, pk, 404, -1, {})

\* UpdateModelMixin.update under IsAuthenticated with the perform_update both
\* update views share: permission, get_object, is_valid, duplicate check, save
update(op, u, pk, data) ==
    /\ UNCHANGED current_year
    /\ IF u = Anonymous
       THEN RefuseAnonymous(op, u, pk, data)
       ELSE IF ~BookExists(pk)
       THEN Refuse(op, u, pk, 404, data, {})
       ELSE IF BookSerializer_errors(BookById(pk), data) # {}
       THEN Refuse(op, u, pk, 400, data, BookSerializer_errors(BookById(pk), data))
       ELSE IF duplicate_exists(BookById(pk), NewValues(BookById(pk), data))
       THEN Refuse(op, u, pk, 400, data, {"already exists"})
       ELSE Save(op, u, pk, data)

\* DestroyModelMixin.destroy under IsAuthenticated
destroy(op, u, pk) ==
    /\ UNCHANGED current_year
    /\ IF u = Anonymous
       THEN RefuseAnonymous(op, u, pk, NoBook)
       ELSE IF ~BookExists(pk)
       THEN Refuse(op, u, pk, 404, NoBook, {})
       ELSE Delete(op, u, pk, NoBook)

\* PUT / PATCH books/<pk>/  (BookRetrieveUpdateDeleteView)
BookRetrieveUpdateDeleteView_update(u, pk, data) == update("books/pk", u, pk, data)
\* DELETE books/<pk>/  (BookRetrieveUpdateDeleteView)
BookRetrieveUpdateDeleteView_destroy(u, pk) == destroy("delete books/pk", u, pk)
\* PUT / PATCH books/<pk>/update/  (BookUpdateView)
BookUpdateView_update(u, pk, data) == update("books/pk/update", u, pk, data)
\* DELETE books/<pk>/delete/  (BookDeleteView)
BookDeleteView_destroy(u, pk) == destroy("books/pk/delete", u, pk)

\* date.today().year after New Year's Eve
NewYear ==
    /\ current_year < LastYear
    /\ current_year' = current_year + 1
    /\ resp' = Response("new_year", Anonymous, 0, 0, -1)
    /\ UNCHANGED <<books, nextBookId>>

(* ---- LibraryProject: users and their profiles ---- *)
LibraryUserIds == 1..NumUsers
\* UserProfile.ROLE_CHOICES; ROLE_MEMBER is the default of the role field
ROLE_ADMIN == "Admin"
ROLE_LIBRARIAN == "Librarian"
ROLE_MEMBER == "Member"
ROLE_CHOICES == {ROLE_ADMIN, ROLE_LIBRARIAN, ROLE_MEMBER}

\* UserProfile.objects.create(user=instance): the profile table after the call
UserProfile_create(ps, instance) == Append(ps, [user |-> instance, role |-> ROLE_MEMBER])

\* UserProfile.objects.get_or_create(user=instance)
UserProfile_get_or_create(ps, instance) ==
    IF \E i \in 1..Len(ps) : ps[i].user = instance THEN ps
    ELSE UserProfile_create(ps, instance)

\* mutant: the receiver creates a profile at every save
create_user_profile_always(ps, instance, created) == UserProfile_create(ps, instance)

\* post_save receiver create_user_profile
create_user_profile(ps, instance, created) ==
    IF created THEN UserProfile_create(ps, instance) ELSE ps

\* post_save receiver save_user_profile
save_user_profile(ps, instance) == UserProfile_get_or_create(ps, instance)

\* post_save: the receivers run in the order they were connected
post_save(ps, instance, created) ==
    save_user_profile(create_user_profile(ps, instance, created), instance)

\* CustomUser.save() of a new user (create_user): the row is inserted, then
\* post_save is sent with created=True
CustomUser_create(u) ==
    /\ u \notin libraryUsers
    /\ \A v \in libraryUsers : v < u
    /\ libraryUsers' = libraryUsers \cup {u}
    /\ profiles' = post_save(profiles, u, TRUE)
    /\ resp' = Response("create_user", Anonymous, u, 0, -1)

\* CustomUser.save() of a stored user: post_save is sent with created=False
CustomUser_save(u) ==
    /\ u \in libraryUsers
    /\ UNCHANGED libraryUsers
    /\ profiles' = post_save(profiles, u, FALSE)
    /\ resp' = Response("save_user", Anonymous, u, 0, -1)

\* UserProfileAdmin: the role of a stored profile is edited
UserProfileAdmin_change(u, role) ==
    /\ \E i \in 1..Len(profiles) : profiles[i].user = u
    /\ UNCHANGED libraryUsers
    /\ profiles' = [i \in 1..Len(profiles) |->
                       IF profiles[i].user = u THEN [profiles[i] EXCEPT !.role = role]
                       ELSE profiles[i]]
    /\ resp' = Response("change_role", Anonymous, u, 0, -1)

(* ---- requests ---- *)
Follow ==
    /\ UNCHANGED <<requests, otherVars>>
    /\ \E u \in LiveCallers, t \in UserIds : FollowUserView_post(u, t)
Unfollow ==
    /\ UNCHANGED <<requests, otherVars>>
    /\ \E u \in LiveCallers, t \in UserIds : UnfollowUserView_post(u, t)
CreatePost ==
    /\ UNCHANGED <<requests, otherVars>>
    /\ \E u \in LiveCallers, title \in Texts, content \in Texts :
                  PostViewSet_create(u, title, content, 0)
Like ==
    /\ UNCHANGED <<requests, otherVars>>
    /\ \E u \in LiveCallers, p \in PostIds : PostLikeView_post(u, p)
Unlike ==
    /\ UNCHANGED <<requests, otherVars>>
    /\ \E u \in LiveCallers, p \in PostIds : PostUnlikeView_post(u, p)
CreateComment ==
    /\ UNCHANGED <<requests, otherVars>>
    /\ \E u \in LiveCallers, p \in PostIds, content \in Texts :
                     CommentViewSet_create(u, p, content, 0)

DeletePost ==
    /\ UNCHANGED <<requests, otherVars>>
    /\ \E u \in LiveCallers, p \in PostIds : PostViewSet_destroy(u, p)
Feed ==
    /\ UNCHANGED <<requests, otherVars>>
    /\ \E u \in LiveCallers : FeedView_get(u)
UpdatePost ==
    /\ UNCHANGED <<requests, otherVars>>
    /\ \E u \in LiveCallers, p \in PostIds, data \in PostBodies :
                  PostViewSet_update(u, p, data.method, data)
UpdateComment ==
    /\ UNCHANGED <<requests, otherVars>>
    /\ \E u \in LiveCallers, c \in CommentIds, data \in CommentBodies :
                     CommentViewSet_update(u, c, data.method, data)
DeleteComment ==
    /\ UNCHANGED <<requests, otherVars>>
    /\ \E u \in LiveCallers, c \in CommentIds : CommentViewSet_destroy(u, c)
ListNotifications ==
    /\ UNCHANGED <<requests, otherVars>>
    /\ \E u \in LiveCallers : NotificationListView_list(u)
MarkRead ==
    /\ UNCHANGED <<requests, otherVars>>
    /\ \E u \in LiveCallers, pk \in NotificationIds : NotificationMarkReadView_post(u, pk)
MarkAllRead ==
    /\ UNCHANGED <<requests, otherVars>>
    /\ \E u \in LiveCallers : NotificationMarkAllReadView_post(u)

\* the first follow and the first like of a run
FirstFollow == (\A e \in DOMAIN following : following[e] = 0) /\ Follow
FirstLike == (\A e \in DOMAIN likes : likes[e] = 0) /\ Like

\* any request of the API sent without credentials
AnonymousRequest ==
    /\ UNCHANGED <<requests, otherVars>>
    /\ \/ \E t \in UserIds : FollowUserView_post(Anonymous, t)
       \/ \E t \in UserIds : UnfollowUserView_post(Anonymous, t)
       \/ \E p \in PostIds : PostLikeView_post(Anonymous, p)
       \/ \E p \in PostIds : PostUnlikeView_post(Anonymous, p)
       \/ \E title \in Texts, content \in Texts : PostViewSet_create(Anonymous, title, content, 0)
       \/ \E p \in PostIds, content \in Texts : CommentViewSet_create(Anonymous, p, content, 0)
       \/ \E pk \in NotificationIds : NotificationMarkReadView_post(Anonymous, pk)
       \/ NotificationMarkAllReadView_post(Anonymous)
       \/ FeedView_get(Anonymous)
       \/ NotificationListView_list(Anonymous)

\* create_notification called with arguments drawn from small sets
Targets == {NoTarget, [model |-> "post", pk |-> 1]}
Verbs == { [verb |-> "liked your post", metadata |-> [post_id |-> 1]],
           [verb |-> "started following you", metadata |-> NoMetadata] }
CreateNotification ==
    UNCHANGED <<requests, otherVars>> /\
    \E recipient \in Users, actor \in Users, v \in Verbs, target \in Targets,
       skip_self \in BOOLEAN :
        create_notification_call(recipient, actor, v.verb, target, v.metadata, skip_self)

\* like requests in flight together
LikeDispatch ==
    /\ UNCHANGED otherVars
    /\ \E u \in LiveCallers, p \in PostIds : PostLikeView_dispatch(u, p)
LikeGet ==
    /\ UNCHANGED otherVars
    /\ \E i \in 1..Len(requests) : get_or_create_get(i)
LikeCreate ==
    /\ UNCHANGED otherVars
    /\ \E i \in 1..Len(requests) : get_or_create_create(i)
LikeNotify ==
    /\ UNCHANGED otherVars
    /\ \E i \in 1..Len(requests) : PostLikeView_notify(i)
LikeNotifyRaises ==
    /\ UNCHANGED otherVars
    /\ \E i \in 1..Len(requests) : PostLikeView_notify_raises(i)
LikeRespond ==
    /\ UNCHANGED otherVars
    /\ \E i \in 1..Len(requests) : PostLikeView_respond(i)

FollowDispatch ==
    /\ UNCHANGED otherVars
    /\ \E u \in LiveCallers, t \in UserIds : FollowUserView_dispatch(u, t)
FollowExists ==
    /\ UNCHANGED otherVars
    /\ \E i \in 1..Len(requests) : following_filter_exists(i)
FollowAdd ==
    /\ UNCHANGED otherVars
    /\ \E i \in 1..Len(requests) : following_add_statement(i)
FollowRespond ==
    /\ UNCHANGED otherVars
    /\ \E i \in 1..Len(requests) : FollowUserView_respond(i)

Register ==
    /\ nextTokenKey <= MaxTokens
    /\ \E username \in UserIds, email \in UserIds, password \in Passwords,
          password_confirm \in Passwords :
          UserRegistrationView_create(username, email, password, password_confirm)
Login ==
    /\ nextTokenKey <= MaxTokens
    /\ \E username \in UserIds, password \in Passwords :
          UserLoginView_post(username, password)
Logout == \E u \in LiveCallers : UserLogoutView_post(u)

\* The requests on posts and comments with bodies that name an author.
CreatePostAs ==
    /\ UNCHANGED <<requests, otherVars>>
    /\ \E u \in LiveCallers, author \in Users :
          PostViewSet_create(u, <<"H", "i">>, <<"H", "i">>, author)
CreateFirstCommentAs ==
    /\ UNCHANGED <<requests, otherVars>>
    /\ nextCommentId = 1
    /\ \E u \in LiveCallers, p \in PostIds, author \in Users :
          CommentViewSet_create(u, p, <<"H", "i">>, author)
UpdatePostAs ==
    /\ UNCHANGED <<requests, otherVars>>
    /\ \E u \in LiveCallers, p \in PostIds, data \in PostBodiesWithAuthor :
          PostViewSet_update(u, p, data.method, data)
UpdateCommentAs ==
    /\ UNCHANGED <<requests, otherVars>>
    /\ \E u \in LiveCallers, c \in CommentIds, data \in CommentBodiesWithAuthor :
          CommentViewSet_update(u, c, data.method, data)

\* what the LibraryProject never touches
notLibraryVars == <<followVars, contentVars, notifications, requests, accountVars, bookVars>>
CreateLibraryUser ==
    /\ UNCHANGED notLibraryVars
    /\ \E u \in LibraryUserIds : CustomUser_create(u)
SaveLibraryUser ==
    /\ UNCHANGED notLibraryVars
    /\ \E u \in LibraryUserIds : CustomUser_save(u)
ChangeRole ==
    /\ UNCHANGED notLibraryVars
    /\ \E u \in LibraryUserIds, role \in ROLE_CHOICES : UserProfileAdmin_change(u, role)

\* a user is deleted
DeleteUser == \E t \in UserIds : User_delete(t)

\* what the book API never touches
notBookVars == <<followVars, contentVars, notifications, requests, accountVars, profileVars>>

\* Bodies of book requests: a POST or a PUT carries every field, a PATCH one.
FullBodies(method, T, A, Y) == {BookData(method, t, a, y) : t \in T, a \in A, y \in Y}
PatchBodies(T, A, Y) ==
    {BookData("PATCH", t, 0, 0) : t \in T}
    \cup {BookData("PATCH", Absent, a, 0) : a \in A}
    \cup {BookData("PATCH", Absent, 0, y) : y \in Y}
UpdateBodies(T, A, Y) == FullBodies("PUT", T, A, Y) \cup PatchBodies(T, A, Y)

\* The requests of the book API, by callers C with titles T, authors A and
\* years Y.
PostBooks(C, T, A, Y) ==
    /\ UNCHANGED notBookVars
    /\ nextBookId <= MaxBooks
    /\ \E u \in C, data \in FullBodies("POST", T, A, Y) : BookListCreateView_post(u, data)
PostBooksCreate(C, T, A, Y) ==
    /\ UNCHANGED notBookVars
    /\ nextBookId <= MaxBooks
    /\ \E u \in C, data \in FullBodies("POST", T, A, Y) : BookCreateView_post(u, data)
GetBooks(C) ==
    /\ UNCHANGED notBookVars
    /\ \E u \in C : BookListCreateView_get(u)
GetBook(C) ==
    /\ UNCHANGED notBookVars
    /\ \E u \in C, pk \in BookIds : BookRetrieveUpdateDeleteView_get(u, pk)
PutBook(C, T, A, Y) ==
    /\ UNCHANGED notBookVars
    /\ \E u \in C, pk \in BookIds, data \in UpdateBodies(T, A, Y) :
          BookRetrieveUpdateDeleteView_update(u, pk, data)
PutBookUpdate(C, T, A, Y) ==
    /\ UNCHANGED notBookVars
    /\ \E u \in C, pk \in BookIds, data \in UpdateBodies(T, A, Y) :
          BookUpdateView_update(u, pk, data)
DeleteBook(C) ==
    /\ UNCHANGED notBookVars
    /\ \E u \in C, pk \in BookIds : BookRetrieveUpdateDeleteView_destroy(u, pk)
DeleteBookDelete(C) ==
    /\ UNCHANGED notBookVars
    /\ \E u \in C, pk \in BookIds : BookDeleteView_destroy(u, pk)
Midnight == UNCHANGED notBookVars /\ NewYear

\* Authenticated callers write books of the existing authors with years that
\* have come, through the four create and update endpoints.
PastYears == {y \in Years : y <= ThisYear}
NextDuplicates ==
    \/ PostBooks(BookUsers, BookTitles, Authors, PastYears)
    \/ PostBooksCreate(BookUsers, BookTitles, Authors, PastYears)
    \/ PutBook(BookUsers, BookTitles, Authors, PastYears)
    \/ PutBookUpdate(BookUsers, BookTitles, Authors, PastYears)

\* One user writes books of one author under two titles, with years behind,
\* at and ahead of the clock, while the year turns.
OneUser == {CHOOSE u \in BookUsers : TRUE}
OneAuthor == {CHOOSE a \in Authors : TRUE}
TwoTitles == {t \in BookTitles : lower(t) # t}
NextYears ==
    \/ PostBooks(OneUser, TwoTitles, OneAuthor, Years)
    \/ PostBooksCreate(OneUser, TwoTitles, OneAuthor, Years)
    \/ PutBook(OneUser, TwoTitles, OneAuthor, Years)
    \/ PutBookUpdate(OneUser, TwoTitles, OneAuthor, Years)
    \/ Midnight

\* Every caller, anonymous or not, sends every request of the book API, with
\* bodies that pass validation.
NextAccess ==
    \/ PostBooks(BookCallers, TwoTitles, OneAuthor, {ThisYear})
    \/ PostBooksCreate(BookCallers, TwoTitles, OneAuthor, {ThisYear})
    \/ GetBooks(BookCallers)
    \/ GetBook(BookCallers)
    \/ PutBook(BookCallers, TwoTitles, OneAuthor, {ThisYear})
    \/ PutBookUpdate(BookCallers, TwoTitles, OneAuthor, {ThisYear})
    \/ DeleteBook(BookCallers)
    \/ DeleteBookDelete(BookCallers)

NextFollow == Follow \/ Unfollow
\* the first POST comments/ of a run
CreateFirstComment == nextCommentId = 1 /\ CreateComment

NextOwner == CreatePost \/ CreateFirstComment \/ UpdatePost \/ DeletePost
             \/ UpdateComment \/ DeleteComment
NextNotifications == CreatePost \/ CreateComment \/ ListNotifications \/ MarkRead
                     \/ MarkAllRead
NextAnonymous == CreatePost \/ CreateFirstComment \/ FirstFollow \/ FirstLike
                 \/ AnonymousRequest
NextService == CreateNotification
NextConcurrentLike == CreatePost \/ LikeDispatch \/ LikeGet \/ LikeCreate \/ LikeNotify
                      \/ LikeRespond
NextFailingLike == CreatePost \/ LikeDispatch \/ LikeGet \/ LikeCreate \/ LikeNotify
                   \/ LikeNotifyRaises \/ LikeRespond
NextCascade == CreatePost \/ CreateFirstComment \/ FirstLike \/ DeletePost
               \/ DeleteUser
\* the first POST posts/ of a run
CreateFirstPost == nextPostId = 1 /\ CreatePost
NextNoSelf == CreateFirstPost \/ FirstFollow \/ Like \/ Unlike \/ CreateFirstComment
\* the first follow, of the author of a stored post
FollowAuthor == FirstFollow /\ \E p \in posts : resp'.arg = p.author /\ resp'.status = 201
\* a like or a comment sent while no notification is stored
LikeUnnotified == notifications = <<>> /\ FirstLike
CommentUnnotified == notifications = <<>> /\ CreateFirstComment
NextAppendOnly == CreateFirstPost \/ FollowAuthor \/ Unfollow \/ LikeUnnotified \/ Unlike
                  \/ CommentUnnotified \/ UpdatePost \/ DeletePost \/ UpdateComment
                  \/ DeleteComment \/ MarkRead \/ MarkAllRead
NextConcurrentFollow == FollowDispatch \/ FollowExists \/ FollowAdd \/ FollowRespond
NextTokens == Register \/ Login \/ Logout
NextAuthorship == CreatePostAs \/ CreateFirstCommentAs \/ UpdatePostAs \/ UpdateCommentAs
NextProfiles == CreateLibraryUser \/ SaveLibraryUser \/ ChangeRole
NextFeed == Follow \/ Unfollow \/ CreatePost \/ DeletePost \/ Feed
NextLike == CreatePost \/ Like \/ Unlike
NextComment == CreatePost \/ CreateComment

Next == Follow \/ Unfollow \/ CreatePost \/ Like \/ Unlike \/ CreateComment

\* every request of the API, in any order
Spec == Init /\ [][Next]_vars
\* follow / unfollow requests only
SpecFollow == Init /\ [][NextFollow]_vars
\* post creation and like / unlike requests
SpecLike == Init /\ [][NextLike]_vars
\* the follow graph, post creation and deletion, and the feed
SpecFeed == Init /\ [][NextFeed]_vars
\* posts and one comment are written, then updated and deleted
SpecOwner == Init /\ [][NextOwner]_vars
\* notifications produced by comments, their listing and read flags
SpecNotifications == Init /\ [][NextNotifications]_vars
\* a few rows are written by authenticated users, and every operation is
\* requested without credentials
SpecAnonymous == Init /\ [][NextAnonymous]_vars
\* calls of the notification service alone
SpecService == Init /\ [][NextService]_vars
\* like requests interleaved statement by statement
SpecConcurrentLike == Init /\ [][NextConcurrentLike]_vars
\* the same, where the notification's INSERT may raise
SpecFailingLike == Init /\ [][NextFailingLike]_vars
\* posts, comments and likes are created; posts, comments and users are deleted
SpecCascade == Init /\ [][NextCascade]_vars
\* the book API of advanced-api-project: creates and updates
SpecDuplicates == Init /\ [][NextDuplicates]_vars
\* the book API: creates and updates while the year turns
SpecYears == Init /\ [][NextYears]_vars
\* the book API: every request by every caller
SpecAccess == Init /\ [][NextAccess]_vars
\* the requests that can notify: follow, like, unlike and comment
SpecNoSelf == Init /\ [][NextNoSelf]_vars
\* every request that could touch a stored notification
SpecAppendOnly == Init /\ [][NextAppendOnly]_vars
\* follow requests whose database statements interleave
SpecConcurrentFollow == Init /\ [][NextConcurrentFollow]_vars
\* registration, login and logout
SpecTokens == Init /\ [][NextTokens]_vars
\* creates and updates of posts and comments whose bodies name an author
SpecAuthorship == Init /\ [][NextAuthorship]_vars
\* LibraryProject: users are created and saved, roles are edited
SpecProfiles == Init /\ [][NextProfiles]_vars
\* post creation and comment creation
SpecComment == Init /\ [][NextComment]_vars

(***************************************************************************)
(* Properties                                                              *)
(***************************************************************************)
\* The step just taken answered request `op` of caller `a` on `arg`.
Handled(op, a, arg) == resp'.op = op /\ resp'.user = a /\ resp'.arg = arg

\* Rows of the through-table read directly.
Edge(f, a, b) == f[<<a, b>>] > 0
FollowingOf(f, a) == {b \in Users : f[<<a, b>>] > 0}
FollowersOf(f, b) == {a \in Users : f[<<a, b>>] > 0}
OtherEdgesUnchanged(a, b) ==
    \A e \in Users \X Users : e # <<a, b>> => following'[e] = following[e]

(* ---- C1 ---- *)
NoSelfFollow == \A u \in Users : u \notin FollowingOf(following, u)

SelfFollowRejected ==
    \A a \in Users :
        Handled("follow", a, a) =>
            /\ resp'.status = 400
            /\ following' = following
            /\ notifications' = notifications

\* C1: in every state reached by follow / unfollow requests no user is in their
\* own following set, and a follow request whose target is the caller is
\* answered 400 and creates neither an edge nor a notification.
C1_NoSelfFollow == [](NoSelfFollow) /\ [][SelfFollowRejected]_vars

\* A self-follow was just rejected while the caller follows somebody else.
C1_Witness ==
    /\ resp.op = "follow" /\ resp.user \in Users /\ resp.arg = resp.user
    /\ resp.status = 400
    /\ FollowingOf(following, resp.user) # {}

(* ---- C2 ---- *)
\* C2: for distinct users A, B with A not yet following B, follow(A,B) is
\* answered 201, afterwards B is in A.following and A is in B.followers, and
\* every other follow edge is unchanged.
C2_FollowCreatesEdge ==
    [][\A a, b \in Users :
         (a # b /\ ~Edge(following, a, b) /\ Handled("follow", a, b)) =>
             /\ resp'.status = 201
             /\ b \in FollowingOf(following', a)
             /\ a \in FollowersOf(following', b)
             /\ OtherEdgesUnchanged(a, b)]_vars

\* A first-time follow was just answered 201 while the reverse edge is absent
\* and the follower has another edge.
C2_Witness ==
    /\ resp.op = "follow" /\ resp.status = 201
    /\ Edge(following, resp.user, resp.arg)
    /\ ~Edge(following, resp.arg, resp.user)
    /\ Cardinality(FollowingOf(following, resp.user)) > 1

(* ---- C3 ---- *)
\* C3: a successful first-time follow(A,B) adds exactly one notification, with
\* recipient = B, actor = A and verb = 'started following you'.
C3_FollowNotifies ==
    [][\A a, b \in Users :
         (Handled("follow", a, b) /\ resp'.status = 201) =>
             /\ Len(notifications') = Len(notifications) + 1
             /\ SubSeq(notifications', 1, Len(notifications)) = notifications
             /\ notifications'[Len(notifications')].recipient = b
             /\ notifications'[Len(notifications')].actor = a
             /\ notifications'[Len(notifications')].verb = "started following you"]_vars

(* ---- C4 ---- *)
AtMostOneEdge == \A e \in Users \X Users : following[e] <= 1

RepeatedFollowIsNoOp ==
    \A a, b \in Users :
        (Edge(following, a, b) /\ Handled("follow", a, b)) =>
            /\ resp'.status = 200
            /\ following' = following
            /\ notifications' = notifications

\* C4: follow(A,B) while A already follows B is answered 200 and leaves the
\* follow edges and the notification store as they were; any number of
\* repeated follows yields exactly one A->B edge.
C4_FollowIdempotent == [](AtMostOneEdge) /\ [][RepeatedFollowIsNoOp]_vars

\* A repeated follow was just answered 200 and the edge exists once.
C4_Witness ==
    /\ resp.op = "follow" /\ resp.status = 200
    /\ following[<<resp.user, resp.arg>>] = 1

(* ---- C5 ---- *)
\* C5: unfollow(A,B) is answered 400 and changes no state whenever A does not
\* follow B (A = B included); when A follows B it is answered 200 and removes
\* exactly the A->B edge, all other edges unchanged.
C5_Unfollow ==
    [][\A a, b \in Users :
         Handled("unfollow", a, b) =>
             /\ UNCHANGED <<contentVars, notifications>>
             /\ IF Edge(following, a, b)
                THEN /\ resp'.status = 200
                     /\ ~Edge(following', a, b)
                     /\ OtherEdgesUnchanged(a, b)
                ELSE /\ resp'.status = 400
                     /\ following' = following]_vars

\* An unfollow was just answered 200 and the caller keeps another edge.
C5_Witness ==
    /\ resp.op = "unfollow" /\ resp.status = 200
    /\ ~Edge(following, resp.user, resp.arg)
    /\ FollowingOf(following, resp.user) # {}

(* ---- likes ---- *)
\* Rows of the Like table read directly.
RECURSIVE CountRows(_, _)
CountRows(l, S) == IF S = {} THEN 0
                   ELSE LET e == CHOOSE x \in S : TRUE
                        IN l[e] + CountRows(l, S \ {e})
LikeRowsOn(l, p) == CountRows(l, {e \in DOMAIN l : e[1] = p})
Liked(l, p, u) == l[<<p, u>>] > 0
OtherLikesUnchanged(p, u) ==
    \A e \in DOMAIN likes : e # <<p, u>> => likes'[e] = likes[e]
AuthorOf(p) == (CHOOSE r \in posts : r.id = p).author
Exists(p) == \E r \in posts : r.id = p
\* The step appended exactly one notification, left the others alone, and the
\* new one is unread and carries these fields.
Appended(recipient, actor, verb, content_type, object_id) ==
    /\ Len(notifications') = Len(notifications) + 1
    /\ SubSeq(notifications', 1, Len(notifications)) = notifications
    /\ LET n == notifications'[Len(notifications')]
       IN /\ n.recipient = recipient
          /\ n.actor = actor
          /\ n.verb = verb
          /\ n.content_type = content_type
          /\ n.object_id = object_id
          /\ n.is_read = FALSE

(* ---- C6 ---- *)
\* C6: in every state reached by like / unlike requests of any users on any
\* posts there is at most one Like row for each (post, user) pair.
C6_AtMostOneLike == \A e \in DOMAIN likes : likes[e] <= 1

\* A repeated like was just answered and the pair still has its single row,
\* next to another user's like on the same post.
C6_Witness ==
    /\ resp.op = "like" /\ resp.status = 200
    /\ likes[<<resp.arg, resp.user>>] = 1
    /\ LikeRowsOn(likes, resp.arg) > 1

(* ---- C7 ---- *)
\* C7: the first like(U,P) is answered 201 and creates the Like; it adds exactly
\* one notification (recipient = P.author, actor = U, verb = 'liked your post',
\* target = P) when U is not P's author, and none when U is P's author.
C7_FirstLike ==
    [][\A u \in Users, p \in PostIds :
         (Exists(p) /\ ~Liked(likes, p, u) /\ Handled("like", u, p)) =>
             /\ resp'.status = 201
             /\ likes'[<<p, u>>] = 1
             /\ OtherLikesUnchanged(p, u)
             /\ IF AuthorOf(p) # u
                THEN Appended(AuthorOf(p), u, "liked your post", "post", p)
                ELSE notifications' = notifications]_vars

\* A post liked by its author and by another user, with the single
\* notification the other user's like produced.
C7_Witness ==
    /\ resp.op = "like" /\ resp.status = 201
    /\ \E r \in posts, u \in Users :
          /\ u # r.author
          /\ Liked(likes, r.id, r.author) /\ Liked(likes, r.id, u)
          /\ Len(notifications) = 1
          /\ notifications[1].actor = u /\ notifications[1].recipient = r.author

(* ---- C8 ---- *)
\* C8: like(U,P) while U already likes P is answered 200, creates no Like row
\* and no notification, and reports the likes_count of before the request.
C8_LikeIdempotent ==
    [][\A u \in Users, p \in PostIds :
         (Exists(p) /\ Liked(likes, p, u) /\ Handled("like", u, p)) =>
             /\ resp'.status = 200
             /\ likes' = likes
             /\ notifications' = notifications
             /\ resp'.likes_count = LikeRowsOn(likes, p)]_vars

\* A repeated like was just answered 200 on a post while another post has
\* likes of its own.
C8_Witness ==
    /\ resp.op = "like" /\ resp.status = 200
    /\ resp.likes_count = LikeRowsOn(likes, resp.arg)
    /\ \E r \in posts : r.id # resp.arg /\ LikeRowsOn(likes, r.id) > 0

(* ---- C9 ---- *)
\* C9: unlike(U,P) is answered 400 and changes no state when U has no Like on
\* P; otherwise it is answered 200, removes exactly U's Like on P, and the
\* reported likes_count is the number of Like rows left on P.
C9_Unlike ==
    [][\A u \in Users, p \in PostIds :
         (Exists(p) /\ Handled("unlike", u, p)) =>
             /\ UNCHANGED <<followVars, posts, nextPostId, comments, nextCommentId,
                            notifications>>
             /\ IF Liked(likes, p, u)
                THEN /\ resp'.status = 200
                     /\ likes'[<<p, u>>] = 0
                     /\ OtherLikesUnchanged(p, u)
                     /\ resp'.likes_count = LikeRowsOn(likes', p)
                ELSE /\ resp'.status = 400
                     /\ likes' = likes]_vars

\* An unlike was just answered 200 and another user's like on the post is left.
C9_Witness ==
    /\ resp.op = "unlike" /\ resp.status = 200
    /\ ~Liked(likes, resp.arg, resp.user)
    /\ resp.likes_count = 1
    /\ LikeRowsOn(likes, resp.arg) = 1

(* ---- C10 ---- *)
\* C10: a comment created on post P by a user other than P's author adds
\* exactly one notification (recipient = P.author, actor = commenter, verb =
\* 'commented on your post', target = P); one by P's author adds none. In both
\* cases the comment is stored with author = requester.
C10_CommentNotifies ==
    [][\A u \in Users, p \in PostIds :
         (Handled("create_comment", u, p) /\ resp'.status = 201) =>
             /\ Exists(p)
             /\ \E c \in comments' \ comments :
                   /\ comments' = comments \cup {c}
                   /\ c.author = u /\ c.post = p
             /\ IF AuthorOf(p) # u
                THEN Appended(AuthorOf(p), u, "commented on your post", "post", p)
                ELSE notifications' = notifications]_vars

\* A post carrying a comment of its author and one of another user, with the
\* single notification of the latter.
C10_Witness ==
    /\ resp.op = "create_comment" /\ resp.status = 201
    /\ \E r \in posts, c1, c2 \in comments :
          /\ c1.post = r.id /\ c2.post = r.id
          /\ c1.author = r.author /\ c2.author # r.author
          /\ Len(notifications) = 1
          /\ notifications[1].actor = c2.author

(* ---- C11 ---- *)
\* C11: at any point of any sequence of follow, unfollow, post-create and
\* post-delete operations, feed(U) is exactly the existing posts whose author
\* is currently in U.following, newest first; it never holds U's own posts nor
\* posts of users U does not follow.
C11_Feed ==
    (resp.op = "feed" /\ resp.status = 200) =>
        LET u == resp.user
            feed == resp.body
        IN /\ {feed[i] : i \in 1..Len(feed)} =
                  {r.id : r \in {x \in posts : Edge(following, u, x.author)}}
           /\ \A i, j \in 1..Len(feed) : i < j => feed[i] > feed[j]
           /\ \A i \in 1..Len(feed) : \A r \in posts :
                  r.id = feed[i] => r.author # u /\ r.author \in FollowingOf(following, u)

\* A feed of one post was just served to a user who has a post of their own.
C11_Witness ==
    /\ resp.op = "feed" /\ resp.status = 200
    /\ Len(resp.body) = 1
    /\ \E r \in posts : r.author = resp.user

\* ---- C12 ----
PostWrites == {"update_post", "delete_post"}
CommentWrites == {"update_comment", "delete_comment"}
CommentAuthorOf(c) == (CHOOSE r \in comments : r.id = c).author

OwnerOnly ==
    LET a == resp'.user
        x == resp'.arg
        ok == resp'.status \in {200, 204}
        isPost == resp'.op \in PostWrites
        isComment == resp'.op \in CommentWrites
    IN (isPost \/ isComment) =>
        /\ a = Anonymous => resp'.status = 401
        /\ (isPost /\ a \in Users /\ Exists(x) /\ AuthorOf(x) # a) => resp'.status = 403
        /\ (isComment /\ a \in Users /\ (\E r \in comments : r.id = x)
               /\ CommentAuthorOf(x) # a) => resp'.status = 403
        /\ (ok /\ isPost) => (Exists(x) /\ AuthorOf(x) = a)
        /\ (ok /\ isComment) => ((\E r \in comments : r.id = x) /\ CommentAuthorOf(x) = a)
        /\ ~ok => (posts' = posts /\ comments' = comments /\ likes' = likes)

\* C12: an update or delete of a post or comment succeeds only for the
\* resource's author; any other authenticated user is answered 403 and an
\* anonymous caller 401, and every request that fails leaves the posts and the
\* comments as they were, the resource still existing.
C12_OwnerOnly == [][OwnerOnly]_vars

\* a comment edited by its author is then refused to another user, and is
\* still there as edited
C12_Witness ==
    /\ resp.op = "update_comment" /\ resp.status = 403 /\ resp.user \in Users
    /\ \E r \in comments : /\ r.id = resp.arg
                            /\ r.author # resp.user
                            /\ r.content = <<"E", "d">>
    /\ \E p \in posts : p.title = <<"E", "d">>


\* ---- C13 ----
AuthenticatedOps == {"follow", "unfollow", "like", "unlike", "create_post",
                     "create_comment", "mark_read", "mark_all_read", "feed",
                     "list_notifications"}

AnonymousRefused ==
    (resp'.user = Anonymous /\ resp'.op \in AuthenticatedOps) =>
        /\ resp'.status = 401
        /\ following' = following
        /\ posts' = posts
        /\ comments' = comments
        /\ likes' = likes
        /\ notifications' = notifications

\* C13: follow, unfollow, like, unlike, post creation, comment creation,
\* mark-read, mark-all-read, the feed and the notification list, requested by an
\* unauthenticated caller, are answered 401 and leave the follow edges, posts,
\* comments, likes and notifications unchanged.
C13_AnonymousRefused == [][AnonymousRefused]_vars

\* an anonymous mark-read of an unread notification was refused while a follow
\* edge, a like and a comment exist
C13_Witness ==
    /\ resp.user = Anonymous /\ resp.op = "mark_read" /\ resp.status = 401
    /\ resp.arg \in 1..Len(notifications)
    /\ ~notifications[resp.arg].is_read
    /\ \E e \in DOMAIN following : following[e] > 0
    /\ \E e \in DOMAIN likes : likes[e] > 0
    /\ comments # {}

\* ---- C17 ----
ServiceContract ==
    resp'.op = "create_notification" =>
        LET b == resp'.body
            n == Len(notifications)
        IN IF b.skip_self /\ b.recipient = b.actor
           THEN b.returned = 0 /\ notifications' = notifications
           ELSE /\ Len(notifications') = n + 1
                /\ SubSeq(notifications', 1, n) = notifications
                /\ b.returned = n + 1
                /\ LET row == notifications'[n + 1]
                   IN /\ row.recipient = b.recipient
                      /\ row.actor = b.actor
                      /\ row.verb = b.verb
                      /\ row.metadata = b.metadata
                      /\ row.is_read = FALSE
                      /\ IF b.target = NoTarget
                         THEN row.content_type = "null" /\ row.object_id = 0
                         ELSE row.content_type = b.target.model
                              /\ row.object_id = b.target.pk

\* C17: create_notification returns None and stores nothing when skip_self is
\* true and the recipient is the actor; in every other case, recipient = actor
\* with skip_self false included, it stores exactly one unread notification with
\* the given recipient, actor, verb and metadata, whose content_type and
\* object_id are the target's type and primary key, or both null without a target.
C17_CreateNotification == [][ServiceContract]_vars

\* a notification to oneself was stored with skip_self false and no target,
\* after a notification about post 1
C17_Witness ==
    /\ resp.op = "create_notification"
    /\ resp.body.recipient = resp.body.actor /\ ~resp.body.skip_self
    /\ resp.body.target = NoTarget
    /\ resp.body.returned = Len(notifications)
    /\ Len(notifications) = 2
    /\ notifications[1].object_id = 1

\* ---- C18 ----
\* empty, or made of whitespace only
Blank(text) == \A i \in 1..Len(text) : text[i] \in {" ", "\t", "\n"}

NoBlankStored ==
    /\ \A r \in posts : ~Blank(r.title) /\ ~Blank(r.content)
    /\ \A r \in comments : ~Blank(r.content)

NothingStored ==
    /\ posts' = posts /\ nextPostId' = nextPostId
    /\ comments' = comments /\ nextCommentId' = nextCommentId
    /\ notifications' = notifications

BlankRejected ==
    /\ \A u \in Users, title \in Texts, content \in Texts :
          (/\ Blank(title) \/ Blank(content)
           /\ resp'.op = "create_post" /\ resp'.user = u
           /\ PostViewSet_create(u, title, content, 0))
              => (resp'.status = 400 /\ NothingStored)
    /\ \A u \in Users, p \in PostIds, content \in Texts :
          (/\ Blank(content)
           /\ Handled("create_comment", u, p)
           /\ CommentViewSet_create(u, p, content, 0))
              => (resp'.status = 400 /\ NothingStored)

\* C18: creating a post whose title or content is empty or whitespace-only, or
\* a comment whose content is empty or whitespace-only, is answered 400 and
\* stores no post, no comment and no notification; no stored post or comment
\* has such a text.
C18_BlankRejected == [](NoBlankStored) /\ [][BlankRejected]_vars

\* a comment on somebody else's post was refused for its content, the post
\* already carrying one notified comment
C18_Witness ==
    /\ resp.op = "create_comment" /\ resp.status = 400 /\ resp.user \in Users
    /\ Exists(resp.arg) /\ AuthorOf(resp.arg) # resp.user
    /\ Len(notifications) = 1
    /\ Cardinality(comments) = 1

\* ---- C19, C20 ----
RequestsFor(u, p) == {i \in 1..Len(requests) : requests[i].user = u /\ requests[i].post = p}
LikeNotifications(u, p) ==
    {i \in 1..Len(notifications) : /\ notifications[i].actor = u
                                    /\ notifications[i].verb = "liked your post"
                                    /\ notifications[i].object_id = p}

\* C19: once every concurrent like request of user U on post P has been
\* answered, whatever the interleaving of their statements, there is exactly one
\* Like row for (P, U) and, U not being P's author, exactly one 'liked your
\* post' notification; no request failed on a storage conflict: one was answered
\* 201 and every other one 200. At no time are there two rows for one (P, U).
C19_ConcurrentLikes ==
    /\ \A e \in DOMAIN likes : likes[e] <= 1
    /\ \A u \in Users, p \in PostIds :
          LET R == RequestsFor(u, p)
          IN (R # {} /\ \A i \in R : requests[i].pc = "done") =>
                /\ likes[<<p, u>>] = 1
                /\ \A i \in R : requests[i].status \in {200, 201}
                /\ Cardinality({i \in R : requests[i].status = 201}) = 1
                /\ AuthorOf(p) # u => Cardinality(LikeNotifications(u, p)) = 1

\* two requests of one user on somebody else's post were both answered, the
\* INSERT of one of them having hit the constraint
C19_Witness ==
    /\ Len(requests) = 2
    /\ requests[1].user = requests[2].user /\ requests[1].post = requests[2].post
    /\ requests[1].pc = "done" /\ requests[2].pc = "done"
    /\ requests[1].caught
    /\ requests[2].status = 201
    /\ AuthorOf(requests[1].post) # requests[1].user

\* C20: a like and the notification it emits are committed together: no state
\* left behind by the requests holds a like of a non-author without its
\* notification (a request between its two statements is not counted).
C20_AtomicCommit ==
    \A u \in Users, p \in PostIds :
        (/\ likes[<<p, u>>] > 0
         /\ Exists(p) /\ AuthorOf(p) # u
         /\ \A i \in RequestsFor(u, p) : requests[i].pc # "notify")
            => LikeNotifications(u, p) # {}

(* ---- notifications ---- *)
\* Primary keys of the notifications of user u, read directly from the table.
NotificationsOf(ns, u) == {i \in 1..Len(ns) : ns[i].recipient = u}
UnreadOf(ns, u) == {i \in 1..Len(ns) : ns[i].recipient = u /\ ~ns[i].is_read}

(* ---- C14 ---- *)
\* C14: the notification list of user U holds exactly the notifications whose
\* recipient is U, all unread before all read and newest first within each
\* group, and its unread_count is the number of U's unread notifications.
C14_NotificationList ==
    (resp.op = "list_notifications" /\ resp.status = 200) =>
        LET u == resp.user
            res == resp.body.results
        IN /\ {res[i] : i \in 1..Len(res)} = NotificationsOf(notifications, u)
           /\ Len(res) = Cardinality(NotificationsOf(notifications, u))
           /\ \A i, j \in 1..Len(res) :
                  i < j =>
                      /\ (notifications[res[i]].is_read => notifications[res[j]].is_read)
                      /\ (notifications[res[i]].is_read = notifications[res[j]].is_read
                             => res[i] > res[j])
           /\ resp.body.unread_count = Cardinality(UnreadOf(notifications, u))

\* A list was just served in which an older unread notification comes before
\* a newer read one.
C14_Witness ==
    /\ resp.op = "list_notifications" /\ resp.status = 200
    /\ Len(resp.body.results) = 2
    /\ resp.body.results[1] < resp.body.results[2]
    /\ resp.body.unread_count = 1

(* ---- C15 ---- *)
\* C15: mark_read(U, id) is answered 404 and leaves is_read unchanged when the
\* notification does not exist or is not U's; otherwise it is answered 200 and
\* the notification is read afterwards, and a repeated call gives the same
\* state and a 200.
C15_MarkRead ==
    [][\A u \in Users, pk \in NotificationIds :
         Handled("mark_read", u, pk) =>
             IF pk \in NotificationsOf(notifications, u)
             THEN /\ resp'.status = 200
                  /\ notifications' = [notifications EXCEPT ![pk].is_read = TRUE]
                  /\ (notifications[pk].is_read => notifications' = notifications)
             ELSE /\ resp'.status = 404
                  /\ notifications' = notifications]_vars

\* A notification was just marked read while one of another user stays unread.
C15_Witness ==
    /\ resp.op = "mark_read" /\ resp.status = 200
    /\ notifications[resp.arg].is_read
    /\ \E i \in 1..Len(notifications) :
          notifications[i].recipient # resp.user /\ ~notifications[i].is_read

(* ---- C16 ---- *)
\* C16: mark_all_read(U) sets is_read on every notification whose recipient is
\* U, reports the number of U's notifications that were unread before the
\* call, and leaves the is_read flag of every other user's notifications as
\* it was.
C16_MarkAllRead ==
    [][\A u \in Users :
         Handled("mark_all_read", u, 0) =>
             /\ resp'.status = 200
             /\ Len(notifications') = Len(notifications)
             /\ \A i \in 1..Len(notifications) :
                   IF notifications[i].recipient = u
                   THEN notifications'[i] = [notifications[i] EXCEPT !.is_read = TRUE]
                   ELSE notifications'[i] = notifications[i]
             /\ resp'.body = Cardinality(UnreadOf(notifications, u))]_vars

\* A user's unread notification was just marked by mark-all-read while one of
\* another user stays unread.
C16_Witness ==
    /\ resp.op = "mark_all_read" /\ resp.status = 200
    /\ resp.body = 1
    /\ \E i \in 1..Len(notifications) :
          notifications[i].recipient # resp.user /\ ~notifications[i].is_read

(* ---- C21 ---- *)
\* Primary keys of the rows of the user table.
StoredUsers(us) == {r.id : r \in us}
\* Every post has a stored author; every comment and every like refers to a
\* stored post and a stored user.
Referential ==
    /\ \A p \in posts : p.author \in StoredUsers(users)
    /\ \A c \in comments : Exists(c.post) /\ c.author \in StoredUsers(users)
    /\ \A e \in DOMAIN likes :
          likes[e] > 0 => Exists(e[1]) /\ e[2] \in StoredUsers(users)

\* C21: every comment and every like refers to an existing post and an
\* existing user, and every post to an existing author; deleting a post
\* removes its comments and likes, and deleting a user removes that user's
\* posts, comments and likes.
C21_ReferentialIntegrity ==
    /\ []Referential
    /\ [][/\ \A u \in Users, p \in PostIds :
               Handled("delete_post", u, p) /\ resp'.status = 204 =>
                   /\ \A r \in posts' : r.id # p
                   /\ \A c \in comments' : c.post # p
                   /\ LikeRowsOn(likes', p) = 0
          /\ \A t \in UserIds :
               Handled("delete_user", Anonymous, t) =>
                   /\ t \notin StoredUsers(users')
                   /\ \A r \in posts' : r.author # t
                   /\ \A c \in comments' : c.author # t
                   /\ \A e \in DOMAIN likes' : e[2] = t => likes'[e] = 0]_vars

\* A user was just deleted after two posts and a comment had been written: one
\* post, of another user, is still stored, and no comment or like is.
C21_Witness ==
    /\ resp.op = "delete_user"
    /\ nextPostId > 2 /\ nextCommentId > 1
    /\ Cardinality(posts) = 1
    /\ comments = {}
    /\ LikeRowsOn(likes, 1) + LikeRowsOn(likes, 2) = 0

(* ---- books ---- *)
\* The step just taken answered a book request through `op`.
BookHandled(ops) == resp'.op \in ops
CreateOps == {"books", "books/create"}
UpdateOps == {"books/pk", "books/pk/update"}
DeleteOps == {"delete books/pk", "books/pk/delete"}
\* Two rows are the same book: same author, same year, titles equal ignoring
\* case.
SameBook(a, b) ==
    /\ a.author = b.author
    /\ a.publication_year = b.publication_year
    /\ lower(a.title) = lower(b.title)
\* The row a request would store, read from the request and the stored row.
Requested(bs, pk, data) ==
    LET old == IF \E b \in bs : b.id = pk THEN CHOOSE b \in bs : b.id = pk
               ELSE [id |-> pk, title |-> Absent, author |-> 0, publication_year |-> 0]
    IN [id |-> pk,
        title |-> IF data.title # Absent THEN data.title ELSE old.title,
        author |-> IF data.author # 0 THEN data.author ELSE old.author,
        publication_year |-> IF data.publication_year # 0 THEN data.publication_year
                             ELSE old.publication_year]

(* ---- C22 ---- *)
\* C22: after any sequence of create and update requests through books/,
\* books/create/, books/<id>/ and books/<id>/update/, no two books have the
\* same author, the same publication year and titles equal ignoring case; a
\* request that would produce such a duplicate is answered 400 and leaves the
\* stored books unchanged.
C22_NoDuplicates ==
    /\ [](\A a, b \in books : a.id # b.id => ~SameBook(a, b))
    /\ [][BookHandled(CreateOps \cup UpdateOps)
          /\ (resp'.op \in UpdateOps => \E b \in books : b.id = resp'.arg)
          /\ (\E b \in books :
                 /\ resp'.op \in UpdateOps => b.id # resp'.arg
                 /\ SameBook(b, Requested(books, IF resp'.op \in UpdateOps
                                                 THEN resp'.arg ELSE 0,
                                          resp'.body.data)))
          => resp'.status = 400 /\ books' = books]_vars

(* ---- C23 ---- *)
\* C23: a book create or update (PUT or PATCH) whose publication_year is
\* greater than the current year is answered 400 with an error on the
\* publication_year field and leaves the stored books unchanged; a
\* publication_year less than or equal to the current year is accepted, so no
\* book created or updated through the API has a publication year in the
\* future at the time of the request.
C23_FutureYearRefused ==
    /\ [](\A b \in books : b.publication_year <= current_year)
    /\ [][BookHandled(CreateOps \cup UpdateOps)
          /\ resp'.user # Anonymous
          /\ (resp'.op \in UpdateOps => \E b \in books : b.id = resp'.arg)
          /\ resp'.body.data.publication_year # 0
          => IF resp'.body.data.publication_year > current_year
             THEN /\ resp'.status = 400
                  /\ "publication_year" \in resp'.body.errors
                  /\ books' = books
             ELSE /\ "publication_year" \notin resp'.body.errors
                  /\ resp'.status \in {200, 201} =>
                       \E b \in books' :
                          /\ b.id = resp'.arg
                          /\ b.publication_year = resp'.body.data.publication_year]_vars

\* After the year has turned, an update of a stored book to the year after was
\* just refused, and a book of the new year is stored.
C23_Witness ==
    /\ resp.op \in UpdateOps /\ resp.status = 400
    /\ resp.body.errors = {"publication_year"}
    /\ current_year = LastYear
    /\ resp.body.data.publication_year = LastYear + 1
    /\ \E b \in books : b.publication_year = LastYear

C25_NoSelfNotification ==
    \A i \in 1..Len(notifications) : notifications[i].recipient # notifications[i].actor

\* An author has liked and commented on their own post, another user has liked
\* it too, and the only notification stored is the other user's.
C25_Witness ==
    /\ \E c \in comments : c.author = AuthorOf(c.post) /\ Liked(likes, c.post, c.author)
    /\ Len(notifications) = 1
    /\ \E p \in posts : Liked(likes, p.id, notifications[1].actor)

(* ---- C26 ---- *)
\* C26: the notification store is append-only and its records are immutable
\* except for is_read: no unfollow, unlike, comment or post update or delete,
\* mark-read or mark-all-read deletes a notification or changes its recipient,
\* actor, verb, target or metadata, and is_read only ever changes from false
\* to true.
C26_AppendOnly ==
    [][/\ Len(notifications') >= Len(notifications)
       /\ \A i \in 1..Len(notifications) :
             /\ [notifications'[i] EXCEPT !.is_read = FALSE]
                   = [notifications[i] EXCEPT !.is_read = FALSE]
             /\ notifications[i].is_read => notifications'[i].is_read]_vars

\* The post a read notification is about was just deleted, and the
\* notification is still stored and read.
C26_Witness ==
    /\ resp.op = "delete_post" /\ resp.status = 204
    /\ posts = {}
    /\ Len(notifications) = 1
    /\ notifications[1].is_read
    /\ notifications[1].content_type = "post"
    /\ notifications[1].object_id = resp.arg

(* ---- C27 ---- *)
\* C27: under every interleaving of two concurrent follow(A, B) requests from
\* the same actor (A # B, no prior edge), the final state has exactly one
\* A -> B edge, neither request fails with a storage-level conflict, and
\* exactly one of the two is answered 201 while the other is answered 200.
C27_ConcurrentFollows ==
    \A i, j \in 1..Len(requests) :
        /\ i < j
        /\ requests[i].user = requests[j].user
        /\ requests[i].target = requests[j].target
        /\ requests[i].pc = "done" /\ requests[j].pc = "done"
        => /\ following[<<requests[i].user, requests[i].target>>] = 1
           /\ {requests[i].status, requests[j].status} = {200, 201}

(* ---- C28 ---- *)
\* The token rows of user u, read from a token table.
TokenRows(ts, u) == {k \in ts : k.user = u}
\* C28: in every state reachable by register, login and logout requests each
\* user has at most one auth token; registration creates the user's token and
\* returns it; a successful login returns the user's existing token unchanged
\* or creates one if none exists; logout deletes the caller's token, so a
\* login after a logout succeeds and yields a token again; a login with wrong
\* credentials is answered 401 and creates no token.
C28_TokenLifecycle ==
    /\ [](\A u \in UserIds : Cardinality(TokenRows(tokens, u)) <= 1)
    /\ [][\A u \in UserIds :
            LET known == \E r \in users : r.id = u /\ r.password = resp'.body.password
                fresh == [user |-> u, key |-> resp'.body.token]
            IN /\ Handled("register", Anonymous, u) /\ resp'.status = 201 =>
                    /\ fresh \notin tokens
                    /\ tokens' = tokens \cup {fresh}
                    /\ TokenRows(tokens', u) = {fresh}
               /\ Handled("login", Anonymous, u) /\ known =>
                    /\ resp'.status = 200
                    /\ TokenRows(tokens', u) = {fresh}
                    /\ IF TokenRows(tokens, u) # {} THEN tokens' = tokens
                       ELSE tokens' = tokens \cup {fresh}
               /\ Handled("login", Anonymous, u) /\ ~known /\ resp'.body.password # <<>> =>
                    /\ resp'.status = 401
                    /\ resp'.body.token = 0
                    /\ tokens' = tokens
               /\ Handled("logout", u, u) /\ TokenRows(tokens, u) # {} =>
                    /\ resp'.status = 200
                    /\ TokenRows(tokens', u) = {}
                    /\ tokens' = tokens \ TokenRows(tokens, u)]_vars

\* The user who registered has logged out and in again and holds a new token,
\* while another user holds theirs.
C28_Witness ==
    /\ resp.op = "login" /\ resp.status = 200
    /\ resp.arg \notin Users
    /\ [user |-> resp.arg, key |-> resp.body.token] \in tokens
    /\ resp.body.token = MaxTokens
    /\ Cardinality(tokens) = 2

(* ---- C29 ---- *)
\* C29: a post's and a comment's author is set to the authenticated requester
\* regardless of any author value in the request body, and no later update
\* (PUT or PATCH, by anyone) changes the author of an existing post or
\* comment.
C29_AuthorFixed ==
    [][/\ \A p \in posts, q \in posts' : p.id = q.id => q.author = p.author
       /\ \A c \in comments, d \in comments' : c.id = d.id => d.author = c.author
       /\ resp'.op = "create_post" /\ resp'.status = 201 =>
            \E q \in posts' :
               /\ q.id = resp'.arg /\ q.author = resp'.user
               /\ \A p \in posts : p.id # q.id
       /\ resp'.op = "create_comment" /\ resp'.status = 201 =>
            \E d \in comments' :
               /\ d.post = resp'.arg /\ d.author = resp'.user
               /\ \A c \in comments : c.id # d.id]_vars

\* The author of a comment has just updated it with a body that names another
\* user as author: the comment is still theirs.
C29_Witness ==
    /\ resp.op = "update_comment" /\ resp.status = 200
    /\ resp.body.author \in Users \ {resp.user}
    /\ \E c \in comments : c.id = resp.arg /\ c.author = resp.user

(* ---- C30 ---- *)
\* The places of the profile table that hold a profile of user u.
ProfilesOf(ps, u) == {i \in 1..Len(ps) : ps[i].user = u}
\* C30: after any sequence of user creations and saves of existing users,
\* every user has exactly one UserProfile; it is created with role 'Member'
\* when the user is first saved, and re-saving a user neither creates a second
\* profile nor changes the role of the existing one.
C30_OneProfile ==
    /\ [](\A u \in libraryUsers : Cardinality(ProfilesOf(profiles, u)) = 1)
    /\ [][\A u \in 1..NumUsers :
            /\ Handled("create_user", Anonymous, u) =>
                 /\ ProfilesOf(profiles, u) = {}
                 /\ profiles' = Append(profiles, [user |-> u, role |-> "Member"])
            /\ Handled("save_user", Anonymous, u) => profiles' = profiles]_vars

\* A user whose role was changed to Admin was just saved again and is still
\* the Admin, with one profile, beside a Member.
C30_Witness ==
    /\ resp.op = "save_user"
    /\ \E i \in 1..Len(profiles) : profiles[i].user = resp.arg /\ profiles[i].role = "Admin"
    /\ \E i \in 1..Len(profiles) : profiles[i].role = "Member"
    /\ Len(profiles) = Cardinality(libraryUsers)
====
